---- MODULE Spec2Model ----
(***************************************************************************)
(* Schema drift detection of sql-server-cli (src/src/commands/compare.rs): *)
(* the diff engine, the snapshot indexer and the compare orchestrator.     *)
(*                                                                         *)
(* Text is modelled as a sequence of one-character strings, so that        *)
(* concatenation, ordering, trimming and escaping are computed character   *)
(* by character as the Rust code computes them.                            *)
(***************************************************************************)
EXTENDS Integers, Sequences, FiniteSets, TLC

VARIABLES
    dLeft, dRight, dResult, dPc,    \* diff_maps on two key -> value maps
    sLeft, sRight,                  \* summarize: the two snapshots,
    sIw, sSc,                       \*   --ignore-whitespace, --strip-comments,
    sSummary, sPc,                  \*   the CompareSummary and the position
    cmd, quiet,                     \* run: CompareArgs flags and CliArgs.quiet
    pc,                             \*   position of run / main
    tpc, qi, sent, result,          \*   per side: fetch_snapshot's position,
                                    \*   query index, statements sent, Snapshot
    rSummary, diffed,               \*   the summary, and whether one was built
    paths,                          \*   presentation paths executed
    out, errOut, files,             \*   stdout, stderr, files written
    faults,                         \*   failures the environment raised
    rExit,                          \*   process exit code, -1 while running
    fIn, fType, fFlags,             \* a text function applied twice: the text,
                                    \*   the type keyword, the two flags,
    fOnce, fTwice, fPc,             \*   f(text), f(f(text)) and the position
    aSource, aTarget,               \* render_apply_script: the two snapshots,
    aOrigin,                        \*   where the summary comes from,
    aSummary, aIncludeDrops,        \*   the summary, include_drops,
    aTableLines, aDropLines,        \*   the three line vectors,
    aModuleLines,
    aScript, aPc,                   \*   the returned text and the position
    cfgIn, cfgOut, cfgPc            \* configuration functions: the inputs, what
                                    \*   was computed from them, the position

diffVars == <<dLeft, dRight, dResult, dPc>>
summaryVars == <<sLeft, sRight, sIw, sSc, sSummary, sPc>>
fetchVars == <<tpc, qi, sent, result>>
runVars == <<cmd, quiet, pc, tpc, qi, sent, result, rSummary, diffed, paths,
             out, errOut, files, faults, rExit>>
cfgVars == <<cfgIn, cfgOut, cfgPc>>
textVars == <<fIn, fType, fFlags, fOnce, fTwice, fPc, cfgVars>>
renderVars == <<aSource, aTarget, aOrigin, aSummary, aIncludeDrops, aTableLines,
                aDropLines, aModuleLines, aScript, aPc>>
vars == <<diffVars, summaryVars, runVars, textVars, renderVars>>

(***************************************************************************)
(* Bounds of the model.                                                    *)
(***************************************************************************)
MaxKeys == 3        \* number of distinct keys a diffed map may draw from
MaxSeed == 5        \* hash seeds 0..MaxSeed select a map's iteration order
MaxRows == 2        \* rows per snapshot in the category that varies

(***************************************************************************)
(* Characters and strings.                                                 *)
(***************************************************************************)
\* The characters of the model in ascending byte order: TAB, LF and CR stand
\* for the control characters 0x09, 0x0A and 0x0D, the rest is printable ASCII
\* (without the grave accent).
Alphabet ==
    <<"TAB", "LF", "CR", " ", "!", "\"", "#", "$", "%", "&", "'", "(", ")",
      "*", "+", ",", "-", ".", "/", "0", "1", "2", "3", "4", "5", "6", "7",
      "8", "9", ":", ";", "<", "=", ">", "?", "@", "A", "B", "C", "D", "E",
      "F", "G", "H", "I", "J", "K", "L", "M", "N", "O", "P", "Q", "R", "S",
      "T", "U", "V", "W", "X", "Y", "Z", "[", "\\", "]", "^", "_",
      "a", "b", "c", "d", "e", "f", "g", "h", "i", "j", "k", "l", "m", "n",
      "o", "p", "q", "r", "s", "t", "u", "v", "w", "x", "y", "z", "{", "|",
      "}", "~">>

Range(s) == {s[i] : i \in 1..Len(s)}

OrdOf == [c \in Range(Alphabet) |-> CHOOSE i \in 1..Len(Alphabet) : Alphabet[i] = c]

Ord(c) == OrdOf[c]

\* <str as Ord>::lt: lexicographic on bytes, decided at the first position
\* where the two differ; a proper prefix is smaller.
StrLess(a, b) ==
    LET n == IF Len(a) < Len(b) THEN Len(a) ELSE Len(b)
        D == {i \in 1..n : a[i] # b[i]}
    IN  IF D = {} THEN Len(a) < Len(b)
        ELSE LET i == CHOOSE x \in D : \A y \in D : x <= y
             IN  Ord(a[i]) < Ord(b[i])

StrLeq(a, b) == a = b \/ StrLess(a, b)

RECURSIVE Insert(_, _)
Insert(x, s) ==
    IF s = <<>> THEN <<x>>
    ELSE IF StrLess(x, Head(s)) THEN <<x>> \o s
    ELSE <<Head(s)>> \o Insert(x, Tail(s))

\* A sort that was forgotten: the pushed order is kept.
NoSort(s) == s

RECURSIVE SortAsc(_)
SortAsc(s) == IF s = <<>> THEN <<>> ELSE Insert(Head(s), SortAsc(Tail(s)))

\* Vec<String>::sort(): ascending, duplicates kept.
Sort(s) == SortAsc(s)

Reverse(s) == [i \in 1..Len(s) |-> s[Len(s) + 1 - i]]

RECURSIVE SetToSortedSeq(_)
SetToSortedSeq(S) ==
    IF S = {} THEN <<>>
    ELSE LET m == CHOOSE x \in S : \A y \in S : StrLeq(x, y)
         IN  <<m>> \o SetToSortedSeq(S \ {m})

Seeds == 0..MaxSeed

\* The order in which a HashMap yields its keys: unspecified, fixed by the
\* map's hash seed. Seed h rotates the keys by h and reverses them when
\* h \div n is odd (every permutation of up to three keys).
IterOrder(m, h) ==
    LET ks == SetToSortedSeq(DOMAIN m)
        n == Len(ks)
        rot == [i \in 1..n |-> ks[((i - 1 + h) % n) + 1]]
    IN  IF n = 0 THEN <<>>
        ELSE IF (h \div n) % 2 = 1 THEN Reverse(rot) ELSE rot

(***************************************************************************)
(* DiffEngine: diff_maps.                                                  *)
(***************************************************************************)
EmptyDiff == [changed |-> <<>>, missing_in_right |-> <<>>, missing_in_left |-> <<>>]

\* diff_maps with the second loop reading `left` again instead of `right`.
DiffMapsOneLoop(left, right, hl, hr) ==
    LET lo == IterOrder(left, hl)
    IN  [changed |-> Sort(SelectSeq(lo,
                        LAMBDA k : k \in DOMAIN right /\ right[k] # left[k])),
         missing_in_right |-> Sort(SelectSeq(lo, LAMBDA k : k \notin DOMAIN right)),
         missing_in_left |-> Sort(SelectSeq(lo, LAMBDA k : k \notin DOMAIN left))]

\* diff_maps with `rv == v` in place of `rv != v`.
DiffMapsEqual(left, right, hl, hr) ==
    LET lo == IterOrder(left, hl)
        ro == IterOrder(right, hr)
    IN  [changed |-> Sort(SelectSeq(lo,
                        LAMBDA k : k \in DOMAIN right /\ right[k] = left[k])),
         missing_in_right |-> Sort(SelectSeq(lo, LAMBDA k : k \notin DOMAIN right)),
         missing_in_left |-> Sort(SelectSeq(ro, LAMBDA k : k \notin DOMAIN left))]

\* diff_maps with the two missing lists exchanged.
DiffMapsSwapped(left, right, hl, hr) ==
    LET lo == IterOrder(left, hl)
        ro == IterOrder(right, hr)
    IN  [changed |-> Sort(SelectSeq(lo,
                        LAMBDA k : k \in DOMAIN right /\ right[k] # left[k])),
         missing_in_right |-> Sort(SelectSeq(ro, LAMBDA k : k \notin DOMAIN left)),
         missing_in_left |-> Sort(SelectSeq(lo, LAMBDA k : k \notin DOMAIN right))]

\* diff_maps(left, right): the first loop walks `left` in its iteration
\* order and pushes to changed / missing_in_right, the second walks the
\* keys of `right` and pushes to missing_in_left; the three lists are then
\* sorted.
DiffMaps(left, right, hl, hr) ==
    LET lo == IterOrder(left, hl)
        ro == IterOrder(right, hr)
    IN  [changed |-> Sort(SelectSeq(lo,
                        LAMBDA k : k \in DOMAIN right /\ right[k] # left[k])),
         missing_in_right |-> Sort(SelectSeq(lo, LAMBDA k : k \notin DOMAIN right)),
         missing_in_left |-> Sort(SelectSeq(ro, LAMBDA k : k \notin DOMAIN left))]

\* The parts of the state a specification does not use stay at these values.
EmptySnapshot ==
    [name |-> <<>>, modules |-> <<>>, indexes |-> <<>>, constraints |-> <<>>,
     tables |-> <<>>, table_columns |-> <<>>]

EmptySummary ==
    [modules |-> EmptyDiff, indexes |-> EmptyDiff,
     constraints |-> EmptyDiff, tables |-> EmptyDiff]

DiffIdle ==
    /\ dLeft = <<>>
    /\ dRight = <<>>
    /\ dResult = EmptyDiff
    /\ dPc = "idle"

SummaryIdle ==
    /\ sLeft = EmptySnapshot
    /\ sRight = EmptySnapshot
    /\ sIw = FALSE
    /\ sSc = FALSE
    /\ sSummary = EmptySummary
    /\ sPc = "idle"

Sides == {"source", "target"}

RunIdle ==
    /\ cmd = [object |-> <<>>, apply_script |-> FALSE, summary |-> FALSE,
              ignore_whitespace |-> FALSE, strip_comments |-> FALSE]
    /\ quiet = FALSE
    /\ pc = "idle"
    /\ tpc = [s \in Sides |-> "idle"]
    /\ qi = [s \in Sides |-> 1]
    /\ sent = [s \in Sides |-> <<>>]
    /\ result = [s \in Sides |-> EmptySnapshot]
    /\ rSummary = EmptySummary
    /\ diffed = FALSE
    /\ paths = <<>>
    /\ out = <<>>
    /\ errOut = <<>>
    /\ files = <<>>
    /\ faults = {}
    /\ rExit = -1

FunIdle ==
    /\ fIn = <<>>
    /\ fType = <<>>
    /\ fFlags = [ignore_whitespace |-> FALSE, strip_comments |-> FALSE]
    /\ fOnce = <<>>
    /\ fTwice = <<>>
    /\ fPc = "idle"

CfgIdle ==
    /\ cfgIn = <<>>
    /\ cfgOut = <<>>
    /\ cfgPc = "idle"

TextIdle == FunIdle /\ CfgIdle

RenderIdle ==
    /\ aSource = EmptySnapshot
    /\ aTarget = EmptySnapshot
    /\ aOrigin = "idle"
    /\ aSummary = EmptySummary
    /\ aIncludeDrops = FALSE
    /\ aTableLines = <<>>
    /\ aDropLines = <<>>
    /\ aModuleLines = <<>>
    /\ aScript = <<>>
    /\ aPc = "idle"

OthersIdle == TextIdle /\ RenderIdle

(***************************************************************************)
(* Specification SpecDiff: diff_maps applied to every pair of maps over    *)
(* the first MaxKeys keys of KeyNames and the values of MapValues.         *)
(***************************************************************************)
KeyNames == << <<"a">>, <<"b">>, <<"c">>, <<"a", "b">>, <<"B">> >>
MapKeys == {KeyNames[i] : i \in 1..MaxKeys}
MapValues == { <<"1">>, <<"2">> }
Maps == UNION {[D -> MapValues] : D \in SUBSET MapKeys}

InitDiff ==
    /\ dLeft \in Maps
    /\ dRight \in Maps
    /\ dResult = EmptyDiff
    /\ dPc = "call"
    /\ SummaryIdle
    /\ RunIdle
    /\ OthersIdle

\* One call of diff_maps; the two maps' hash seeds are the run's choice.
DiffMapsCall ==
    /\ dPc = "call"
    /\ \E hl \in Seeds, hr \in Seeds : dResult' = DiffMaps(dLeft, dRight, hl, hr)
    /\ dPc' = "done"
    /\ UNCHANGED <<dLeft, dRight>>
    /\ UNCHANGED <<summaryVars, runVars, textVars, renderVars>>

NextDiff == DiffMapsCall

SpecDiff == InitDiff /\ [][NextDiff]_vars

StrictlyAscending(s) == \A i \in 1..(Len(s) - 1) : StrLess(s[i], s[i + 1])

\* C1: diff_maps returns exactly the changed keys, the keys only in left
\* (missing_in_right) and the keys only in right (missing_in_left), each list
\* sorted ascending without duplicates, the lists pairwise disjoint, and the
\* same result for every iteration order of the two maps.
C1_DiffMapsExact ==
    dPc = "done" =>
        /\ Range(dResult.changed) =
               {k \in DOMAIN dLeft \cap DOMAIN dRight : dLeft[k] # dRight[k]}
        /\ Range(dResult.missing_in_right) = DOMAIN dLeft \ DOMAIN dRight
        /\ Range(dResult.missing_in_left) = DOMAIN dRight \ DOMAIN dLeft
        /\ StrictlyAscending(dResult.changed)
        /\ StrictlyAscending(dResult.missing_in_right)
        /\ StrictlyAscending(dResult.missing_in_left)
        /\ Range(dResult.changed) \cap Range(dResult.missing_in_right) = {}
        /\ Range(dResult.changed) \cap Range(dResult.missing_in_left) = {}
        /\ Range(dResult.missing_in_right) \cap Range(dResult.missing_in_left) = {}
        /\ \A hl \in Seeds, hr \in Seeds : DiffMaps(dLeft, dRight, hl, hr) = dResult

\* A call with keys missing on either side, where sorting has work to do.
C1_Witness ==
    /\ dPc = "done"
    /\ Len(dResult.missing_in_right) >= 2
    /\ dResult.missing_in_left # <<>>

ListsHolding(d, k) ==
    Cardinality({n \in {"changed", "missing_in_right", "missing_in_left"} :
                    k \in Range(d[n])})

\* C2 as claimed: every key of either map is in exactly one of the lists.
C2_Exhaustive ==
    dPc = "done" =>
        \A k \in DOMAIN dLeft \cup DOMAIN dRight : ListsHolding(dResult, k) = 1

\* C2 (amended): every key of either map is in at most one of the three
\* lists, and in none exactly when both maps hold it with equal values.
C2_ExhaustiveOverDrift ==
    dPc = "done" =>
        \A k \in DOMAIN dLeft \cup DOMAIN dRight :
            /\ ListsHolding(dResult, k) <= 1
            /\ ListsHolding(dResult, k) = 0 <=>
                   (k \in DOMAIN dLeft /\ k \in DOMAIN dRight /\ dLeft[k] = dRight[k])

\* A call where one key is unchanged on both sides and another is in a list.
C2_Witness ==
    /\ dPc = "done"
    /\ \E k \in DOMAIN dLeft \cap DOMAIN dRight : dLeft[k] = dRight[k]
    /\ \E k \in DOMAIN dLeft \cup DOMAIN dRight : ListsHolding(dResult, k) = 1

(***************************************************************************)
(* DefinitionNormalizer: normalize_definition.                             *)
(***************************************************************************)
\* \s of the regex crate and str::trim: the White_Space characters.
IsSpace(c) == c \in {"TAB", "LF", "CR", " "}

RECURSIVE ReplaceCrLf(_)
\* definition.replace("\r\n", "\n")
ReplaceCrLf(s) ==
    IF s = <<>> THEN <<>>
    ELSE IF Len(s) >= 2 /\ s[1] = "CR" /\ s[2] = "LF"
         THEN <<"LF">> \o ReplaceCrLf(SubSeq(s, 3, Len(s)))
         ELSE <<Head(s)>> \o ReplaceCrLf(Tail(s))

\* The first index i >= from with s[i] = "*" and s[i+1] = "/", or 0.
CloseAt(s, from) ==
    LET I == {i \in from..(Len(s) - 1) : s[i] = "*" /\ s[i + 1] = "/"}
    IN  IF I = {} THEN 0 ELSE CHOOSE i \in I : \A j \in I : i <= j

RECURSIVE StripBlockComments(_)
\* block_comment_re().replace_all(d, ""): (?s)/\*.*?\*/ matched leftmost and
\* lazily, the search resuming after each match.
StripBlockComments(s) ==
    IF Len(s) < 2 THEN s
    ELSE IF s[1] = "/" /\ s[2] = "*" /\ CloseAt(s, 3) # 0
         THEN StripBlockComments(SubSeq(s, CloseAt(s, 3) + 2, Len(s)))
         ELSE <<Head(s)>> \o StripBlockComments(Tail(s))

\* The first index i >= from with s[i] = LF, or Len(s) + 1.
LineEnd(s, from) ==
    LET I == {i \in from..Len(s) : s[i] = "LF"}
    IN  IF I = {} THEN Len(s) + 1 ELSE CHOOSE i \in I : \A j \in I : i <= j

RECURSIVE StripLineComments(_)
\* line_comment_re().replace_all(d, ""): (?m)--.*$ removes from "--" up to,
\* not including, the next line feed (or the end of the text).
StripLineComments(s) ==
    IF Len(s) < 2 THEN s
    ELSE IF s[1] = "-" /\ s[2] = "-"
         THEN StripLineComments(SubSeq(s, LineEnd(s, 3), Len(s)))
         ELSE <<Head(s)>> \o StripLineComments(Tail(s))

\* strip_sql_comments: block comments first, then line comments.
StripSqlComments(s) == StripLineComments(StripBlockComments(s))

RECURSIVE TrimStart(_)
TrimStart(s) == IF s # <<>> /\ IsSpace(Head(s)) THEN TrimStart(Tail(s)) ELSE s

RECURSIVE TrimEnd(_)
TrimEnd(s) ==
    IF s # <<>> /\ IsSpace(s[Len(s)]) THEN TrimEnd(SubSeq(s, 1, Len(s) - 1)) ELSE s

\* str::trim
Trim(s) == TrimEnd(TrimStart(s))

RECURSIVE CollapseWhitespace(_)
\* whitespace_re().replace_all(d, " "): every maximal run of \s+ becomes " ".
CollapseWhitespace(s) ==
    IF s = <<>> THEN <<>>
    ELSE IF IsSpace(Head(s))
         THEN <<" ">> \o CollapseWhitespace(TrimStart(s))
         ELSE <<Head(s)>> \o CollapseWhitespace(Tail(s))

\* normalize_definition(definition, ignore_whitespace, strip_comments)
NormalizeDefinition(definition, ignore_whitespace, strip_comments) ==
    LET d1 == ReplaceCrLf(definition)
        d2 == IF strip_comments THEN StripSqlComments(d1) ELSE d1
        d3 == Trim(d2)
    IN  IF ignore_whitespace THEN CollapseWhitespace(d3) ELSE d3

(***************************************************************************)
(* serde_json text of the signatures.                                      *)
(***************************************************************************)
RECURSIVE JsonEscape(_)
\* serde_json's string escaping for the characters of the model.
JsonEscape(s) ==
    IF s = <<>> THEN <<>>
    ELSE LET c == Head(s)
             e == IF c = "\"" THEN <<"\\", "\"">>
                  ELSE IF c = "\\" THEN <<"\\", "\\">>
                  ELSE IF c = "LF" THEN <<"\\", "n">>
                  ELSE IF c = "CR" THEN <<"\\", "r">>
                  ELSE IF c = "TAB" THEN <<"\\", "t">>
                  ELSE <<c>>
         IN  e \o JsonEscape(Tail(s))

JsonString(s) == <<"\"">> \o JsonEscape(s) \o <<"\"">>

JsonBool(b) == IF b THEN <<"t", "r", "u", "e">> ELSE <<"f", "a", "l", "s", "e">>

(***************************************************************************)
(* SnapshotIndexer: the four key -> signature maps of a snapshot.          *)
(***************************************************************************)
\* HashMap::insert over the rows in order: keys[i] and vals[i] are the key
\* and the value of row i, and a later row replaces an earlier row of the
\* same key.
MapOfRows(keys, vals) ==
    [k \in Range(keys) |->
        LET last == CHOOSE i \in 1..Len(keys) :
                        /\ keys[i] = k
                        /\ \A j \in 1..Len(keys) : keys[j] = k => j <= i
        IN  vals[last]]

\* format!("{}.{}.{}", row.schema_name, row.type, row.name)
ModuleKey(row) == row.schema_name \o <<".">> \o row.type \o <<".">> \o row.name

\* build_module_map
BuildModuleMap(rows, ignore_whitespace, strip_comments) ==
    MapOfRows([i \in 1..Len(rows) |-> ModuleKey(rows[i])],
              [i \in 1..Len(rows) |->
                  NormalizeDefinition(rows[i].definition,
                                      ignore_whitespace, strip_comments)])

\* serde_json::json!({type, unique, primaryKey, uniqueConstraint, keyColumns,
\* includeColumns}).to_string(): the object's keys in sorted order.
IndexSignature(row) ==
    <<"{", "\"", "i", "n", "c", "l", "u", "d", "e", "C", "o", "l", "u", "m", "n", "s", "\"", ":">> \o JsonString(row.include_columns)
    \o <<",", "\"", "k", "e", "y", "C", "o", "l", "u", "m", "n", "s", "\"", ":">> \o JsonString(row.key_columns)
    \o <<",", "\"", "p", "r", "i", "m", "a", "r", "y", "K", "e", "y", "\"", ":">> \o JsonBool(row.is_primary_key)
    \o <<",", "\"", "t", "y", "p", "e", "\"", ":">> \o JsonString(row.type)
    \o <<",", "\"", "u", "n", "i", "q", "u", "e", "\"", ":">> \o JsonBool(row.is_unique)
    \o <<",", "\"", "u", "n", "i", "q", "u", "e", "C", "o", "n", "s", "t", "r", "a", "i", "n", "t", "\"", ":">> \o JsonBool(row.is_unique_constraint)
    \o <<"}">>

\* format!("{}.{}::{}", row.schema_name, row.table_name, signature)
IndexKey(row) ==
    row.schema_name \o <<".">> \o row.table_name \o <<":", ":">> \o IndexSignature(row)

\* format!("{}.{}", row.schema_name, row.table_name)
TableKey(row) == row.schema_name \o <<".">> \o row.table_name

\* An index map keyed by schema.table alone, the signature only in the value.
BuildIndexMapByTable(rows) ==
    MapOfRows([i \in 1..Len(rows) |-> TableKey(rows[i])],
              [i \in 1..Len(rows) |-> IndexSignature(rows[i])])

\* build_index_map
BuildIndexMap(rows) ==
    MapOfRows([i \in 1..Len(rows) |-> IndexKey(rows[i])],
              [i \in 1..Len(rows) |-> IndexSignature(rows[i])])

\* format!("{}.{}.{}::{}", schema_name, table_name, type, def) with the
\* definition normalized under the flags.
ConstraintKey(row, ignore_whitespace, strip_comments) ==
    row.schema_name \o <<".">> \o row.table_name \o <<".">> \o row.type
    \o <<":", ":">>
    \o NormalizeDefinition(row.definition, ignore_whitespace, strip_comments)

\* build_constraint_map: the key is also the value.
BuildConstraintMap(rows, ignore_whitespace, strip_comments) ==
    LET keys == [i \in 1..Len(rows) |->
                    ConstraintKey(rows[i], ignore_whitespace, strip_comments)]
    IN  MapOfRows(keys, keys)

\* serde_json::json!({columns, indexes, checks}).to_string()
TableSignature(row) ==
    <<"{", "\"", "c", "h", "e", "c", "k", "s", "\"", ":">> \o JsonString(row.checks)
    \o <<",", "\"", "c", "o", "l", "u", "m", "n", "s", "\"", ":">> \o JsonString(row.columns)
    \o <<",", "\"", "i", "n", "d", "e", "x", "e", "s", "\"", ":">> \o JsonString(row.indexes)
    \o <<"}">>

\* build_table_map
BuildTableMap(rows) ==
    MapOfRows([i \in 1..Len(rows) |-> TableKey(rows[i])],
              [i \in 1..Len(rows) |-> TableSignature(rows[i])])

(***************************************************************************)
(* DiffEngine: summarize and has_drift.                                    *)
(***************************************************************************)
\* summarize(left, right, ignore_whitespace, strip_comments); hl and hr seed
\* the iteration order of the left and of the right maps.
\* The four maps summarize builds of one snapshot.
SnapshotMaps(snap, ignore_whitespace, strip_comments) ==
    [modules |-> BuildModuleMap(snap.modules, ignore_whitespace, strip_comments),
     indexes |-> BuildIndexMap(snap.indexes),
     constraints |->
        BuildConstraintMap(snap.constraints, ignore_whitespace, strip_comments),
     tables |-> BuildTableMap(snap.tables)]

\* The CompareSummary of the two sides' maps: each category diffed alone.
DiffAll(lm, rm, hl, hr) ==
    [modules |-> DiffMaps(lm.modules, rm.modules, hl, hr),
     indexes |-> DiffMaps(lm.indexes, rm.indexes, hl, hr),
     constraints |-> DiffMaps(lm.constraints, rm.constraints, hl, hr),
     tables |-> DiffMaps(lm.tables, rm.tables, hl, hr)]

\* summarize(left, right, ignore_whitespace, strip_comments); hl and hr seed
\* the iteration order of the left and of the right maps.
Summarize(left, right, ignore_whitespace, strip_comments, hl, hr) ==
    DiffAll(SnapshotMaps(left, ignore_whitespace, strip_comments),
            SnapshotMaps(right, ignore_whitespace, strip_comments), hl, hr)

\* has_drift that forgets the tables category.
HasDriftNoTables(summary) ==
    \/ summary.modules.changed # <<>>
    \/ summary.modules.missing_in_left # <<>>
    \/ summary.modules.missing_in_right # <<>>
    \/ summary.indexes.changed # <<>>
    \/ summary.indexes.missing_in_left # <<>>
    \/ summary.indexes.missing_in_right # <<>>
    \/ summary.constraints.changed # <<>>
    \/ summary.constraints.missing_in_left # <<>>
    \/ summary.constraints.missing_in_right # <<>>

\* has_drift
HasDrift(summary) ==
    \/ summary.modules.changed # <<>>
    \/ summary.modules.missing_in_left # <<>>
    \/ summary.modules.missing_in_right # <<>>
    \/ summary.indexes.changed # <<>>
    \/ summary.indexes.missing_in_left # <<>>
    \/ summary.indexes.missing_in_right # <<>>
    \/ summary.constraints.changed # <<>>
    \/ summary.constraints.missing_in_left # <<>>
    \/ summary.constraints.missing_in_right # <<>>
    \/ summary.tables.changed # <<>>
    \/ summary.tables.missing_in_left # <<>>
    \/ summary.tables.missing_in_right # <<>>

(***************************************************************************)
(* Specification SpecSummary: summarize applied to two snapshots. One      *)
(* category of rows varies at a time, drawn as sequences of at most        *)
(* MaxRows rows of its pool (a row may repeat, rows may share a key); the  *)
(* other categories hold the same background rows on both sides.           *)
(***************************************************************************)
ModuleRow(schema, name, type, definition) ==
    [schema_name |-> schema, name |-> name, type |-> type, definition |-> definition]

IndexRow(schema, table, type, unique, pk, uc, keys, includes) ==
    [schema_name |-> schema, table_name |-> table, type |-> type,
     is_unique |-> unique, is_primary_key |-> pk, is_unique_constraint |-> uc,
     key_columns |-> keys, include_columns |-> includes]

ConstraintRow(schema, table, name, type, definition) ==
    [schema_name |-> schema, table_name |-> table, name |-> name, type |-> type,
     definition |-> definition]

TableRow(schema, table, columns, indexes, checks) ==
    [schema_name |-> schema, table_name |-> table, columns |-> columns,
     indexes |-> indexes, checks |-> checks]

\* dbo.Foo twice (definitions equal up to whitespace and a comment) and a
\* procedure of another schema.
ModulePool ==
    << ModuleRow(<<"d", "b", "o">>, <<"F", "o", "o">>, <<"P">>, <<"S", "E", "L", "E", "C", "T", " ", "1">>),
       ModuleRow(<<"d", "b", "o">>, <<"F", "o", "o">>, <<"P">>, <<"S", "E", "L", "E", "C", "T", "CR", "LF", " ", "1", " ", "-", "-", "x">>),
       ModuleRow(<<"w", "e", "b">>, <<"F", "o", "o">>, <<"P">>, <<"S", "E", "L", "E", "C", "T", " ", "2">>) >>

\* Two indexes of dbo.T that differ in uniqueness only.
IndexPool ==
    << IndexRow(<<"d", "b", "o">>, <<"T">>, <<"N", "O", "N", "C", "L", "U", "S", "T", "E", "R", "E", "D">>, FALSE, FALSE, FALSE, <<"a", " ", "A", "S", "C">>, <<>>),
       IndexRow(<<"d", "b", "o">>, <<"T">>, <<"N", "O", "N", "C", "L", "U", "S", "T", "E", "R", "E", "D">>, TRUE, FALSE, FALSE, <<"a", " ", "A", "S", "C">>, <<>>) >>

\* Two CHECK constraints of dbo.T equal up to whitespace.
ConstraintPool ==
    << ConstraintRow(<<"d", "b", "o">>, <<"T">>, <<"C", "K", "1">>, <<"C", "H", "E", "C", "K">>, <<"(", "x", " ", ">", "0", ")">>),
       ConstraintRow(<<"d", "b", "o">>, <<"T">>, <<"C", "K", "2">>, <<"C", "H", "E", "C", "K">>, <<"(", "x", " ", " ", ">", "0", ")">>) >>

\* dbo.T with two column lists.
TablePool ==
    << TableRow(<<"d", "b", "o">>, <<"T">>, <<"1", ":", "a", ":", "i", "n", "t">>, <<>>, <<>>),
       TableRow(<<"d", "b", "o">>, <<"T">>, <<"1", ":", "a", ":", "i", "n", "t", "|", "|", "2", ":", "b", ":", "i", "n", "t">>, <<>>, <<>>) >>

RowSeqs(pool) ==
    UNION {[1..n -> Range(pool)] : n \in 0..MaxRows}

Categories == {"modules", "indexes", "constraints", "tables"}

PoolOf(cat) ==
    CASE cat = "modules" -> ModulePool
      [] cat = "indexes" -> IndexPool
      [] cat = "constraints" -> ConstraintPool
      [] cat = "tables" -> TablePool

\* The rows both sides share in the categories that do not vary.
Background(name) ==
    [name |-> name,
     modules |-> <<ModuleRow(<<"d", "b", "o">>, <<"B", "a", "r">>, <<"V">>, <<"/", "*", "v", "*", "/", "S", "E", "L", "E", "C", "T", " ", "2">>)>>,
     indexes |-> <<IndexRow(<<"d", "b", "o">>, <<"U">>, <<"C", "L", "U", "S", "T", "E", "R", "E", "D">>, TRUE, TRUE, FALSE,
                            <<"i", " ", "A", "S", "C">>, <<"b">>)>>,
     constraints |-> <<ConstraintRow(<<"d", "b", "o">>, <<"U">>, <<"D", "F", "1">>, <<"D", "E", "F", "A", "U", "L", "T">>, <<"(", "1", ")">>)>>,
     tables |-> <<TableRow(<<"d", "b", "o">>, <<"U">>, <<"1", ":", "i", ":", "i", "n", "t">>, <<"i", "x">>, <<"(", "i", ">", "0", ")">>)>>,
     table_columns |-> <<>>]

InitSummary ==
    /\ \E cat \in Categories :
        \E l \in RowSeqs(PoolOf(cat)), r \in RowSeqs(PoolOf(cat)) :
            /\ sLeft = [Background(<<"s", "r", "c">>) EXCEPT ![cat] = l]
            /\ sRight = [Background(<<"t", "g", "t">>) EXCEPT ![cat] = r]
    /\ sIw \in BOOLEAN
    /\ sSc \in BOOLEAN
    /\ sSummary = EmptySummary
    /\ sPc = "call"
    /\ DiffIdle
    /\ RunIdle
    /\ OthersIdle

\* One call of summarize.
SummarizeCall ==
    /\ sPc = "call"
    /\ LET lm == SnapshotMaps(sLeft, sIw, sSc)
           rm == SnapshotMaps(sRight, sIw, sSc)
       IN  \E h \in Seeds : sSummary' = DiffAll(lm, rm, h, MaxSeed - h)
    /\ sPc' = "done"
    /\ UNCHANGED <<sLeft, sRight, sIw, sSc>>
    /\ UNCHANGED <<diffVars, runVars, textVars, renderVars>>

NextSummary == SummarizeCall

SpecSummary == InitSummary /\ [][NextSummary]_vars

SameRows(l, r) ==
    /\ l.modules = r.modules
    /\ l.indexes = r.indexes
    /\ l.constraints = r.constraints
    /\ l.tables = r.tables
    /\ l.table_columns = r.table_columns

\* C3: a snapshot summarized against itself, under every combination of the
\* two flags, gives twelve empty lists and no drift; and diff_maps of each of
\* its four maps against itself gives three empty lists for every iteration
\* order.
C3_SelfCompareEmpty ==
    (sPc = "done" /\ SameRows(sLeft, sRight)) =>
        /\ sSummary = EmptySummary
        /\ ~HasDrift(sSummary)
        /\ \A hl \in Seeds, hr \in Seeds :
            LET mm == BuildModuleMap(sLeft.modules, sIw, sSc)
                im == BuildIndexMap(sLeft.indexes)
                cm == BuildConstraintMap(sLeft.constraints, sIw, sSc)
                tm == BuildTableMap(sLeft.tables)
            IN  /\ DiffMaps(mm, mm, hl, hr) = EmptyDiff
                /\ DiffMaps(im, im, hl, hr) = EmptyDiff
                /\ DiffMaps(cm, cm, hl, hr) = EmptyDiff
                /\ DiffMaps(tm, tm, hl, hr) = EmptyDiff

\* A snapshot compared with itself whose module rows repeat a key with
\* different definitions, under both flags.
C3_Witness ==
    /\ sPc = "done"
    /\ SameRows(sLeft, sRight)
    /\ sIw /\ sSc
    /\ \E i, j \in 1..Len(sLeft.modules) :
        /\ ModuleKey(sLeft.modules[i]) = ModuleKey(sLeft.modules[j])
        /\ sLeft.modules[i].definition # sLeft.modules[j].definition

IndexKeys(snap) == {IndexKey(snap.indexes[i]) : i \in 1..Len(snap.indexes)}

ConstraintKeys(snap) ==
    {ConstraintKey(snap.constraints[i], sIw, sSc) : i \in 1..Len(snap.constraints)}

\* C4: the changed lists of indexes and of constraints are always empty; an
\* index or constraint signature that one side has and the other lacks is
\* listed under missing_in_right (left only) or missing_in_left (right only).
C4_IndexConstraintNeverChanged ==
    sPc = "done" =>
        /\ sSummary.indexes.changed = <<>>
        /\ sSummary.constraints.changed = <<>>
        /\ Range(sSummary.indexes.missing_in_right) = IndexKeys(sLeft) \ IndexKeys(sRight)
        /\ Range(sSummary.indexes.missing_in_left) = IndexKeys(sRight) \ IndexKeys(sLeft)
        /\ Range(sSummary.constraints.missing_in_right) =
               ConstraintKeys(sLeft) \ ConstraintKeys(sRight)
        /\ Range(sSummary.constraints.missing_in_left) =
               ConstraintKeys(sRight) \ ConstraintKeys(sLeft)

\* The two sides hold an index of the same table with different signatures:
\* one entry is reported on each side.
C4_Witness ==
    /\ sPc = "done"
    /\ \E i \in 1..Len(sLeft.indexes), j \in 1..Len(sRight.indexes) :
        /\ TableKey(sLeft.indexes[i]) = TableKey(sRight.indexes[j])
        /\ IndexSignature(sLeft.indexes[i]) # IndexSignature(sRight.indexes[j])
        /\ IndexKey(sLeft.indexes[i]) \in Range(sSummary.indexes.missing_in_right)
        /\ IndexKey(sRight.indexes[j]) \in Range(sSummary.indexes.missing_in_left)

\* ---------------------------------------------------------------------------
\* Object lookup (match_object_predicate, pick_first_module)
\* ---------------------------------------------------------------------------

UpperChars == <<"A", "B", "C", "D", "E", "F", "G", "H", "I", "J", "K", "L", "M",
                "N", "O", "P", "Q", "R", "S", "T", "U", "V", "W", "X", "Y", "Z">>
LowerChars == <<"a", "b", "c", "d", "e", "f", "g", "h", "i", "j", "k", "l", "m",
                "n", "o", "p", "q", "r", "s", "t", "u", "v", "w", "x", "y", "z">>

AsciiLower(c) ==
    IF \E i \in 1..Len(UpperChars) : UpperChars[i] = c
    THEN LowerChars[CHOOSE i \in 1..Len(UpperChars) : UpperChars[i] = c]
    ELSE c

ToLowercase(s) == [i \in 1..Len(s) |-> AsciiLower(s[i])]

EqIgnoreAsciiCase(a, b) == ToLowercase(a) = ToLowercase(b)

\* str::split('.'): the pieces between the dots, empty pieces included.
RECURSIVE SplitDot(_)
SplitDot(s) ==
    IF \E i \in 1..Len(s) : s[i] = "."
    THEN LET i == CHOOSE j \in 1..Len(s) : s[j] = "." /\ \A k \in 1..(j - 1) : s[k] # "."
         IN  <<SubSeq(s, 1, i - 1)>> \o SplitDot(SubSeq(s, i + 1, Len(s)))
    ELSE <<s>>

MatchObjectPredicate(object, row) ==
    LET parts == SplitDot(object)
    IN  IF Len(parts) = 2
        THEN /\ EqIgnoreAsciiCase(row.schema_name, ToLowercase(parts[1]))
             /\ EqIgnoreAsciiCase(row.name, ToLowercase(parts[2]))
        ELSE EqIgnoreAsciiCase(row.name, ToLowercase(object))

\* Option<ModuleRow> as a sequence of at most one row.
PickFirstModule(snapshot, object) ==
    LET hits == SelectSeq(snapshot.modules, LAMBDA m : MatchObjectPredicate(object, m))
    IN  IF hits = <<>> THEN <<>> ELSE <<Head(hits)>>

\* ---------------------------------------------------------------------------
\* The compare command: main, run, fetch_snapshot and the presentation paths
\* ---------------------------------------------------------------------------

\* The five catalog queries in the order fetch_snapshot awaits them.
QueryOrder == <<"modules", "indexes", "constraints", "tables", "table_columns">>

\* Exit codes of the process.
ExitOk == 0
ExitDrift == 3
\* A variant of ExitNotFound that reports a missing object as drift.
ExitNotFoundAsDrift == ExitDrift

ExitNotFound == 4

\* A variant of ExitError that collides with the drift code.
ExitErrorAsDrift == ExitDrift

ExitError == 1

\* What a database can hold: the fixed rows plus a procedure dbo.Foo that is
\* absent or has one of two bodies, and a table dbo.T with one of two column
\* lists.
Catalogs(name) ==
    {[Background(name) EXCEPT !.modules = ms, !.tables = ts] :
        ms \in {<<>>, <<ModulePool[1]>>, <<ModulePool[2]>>},
        ts \in {<<TablePool[1]>>, <<TablePool[2]>>}}

ProfileName(side) == IF side = "source" THEN <<"s", "r", "c">> ELSE <<"t", "g", "t">>

ObjectArgs == {<<>>, <<<<"d", "b", "o", ".", "f", "o", "o">>>>}

ApplyPaths == {"default", "-", "out/a.sql"}

HasParentDir(path) == path = "out/a.sql"

Init ==
    /\ cmd \in [object : ObjectArgs, apply_script : BOOLEAN, summary : BOOLEAN,
                ignore_whitespace : BOOLEAN, strip_comments : BOOLEAN]
    /\ quiet \in BOOLEAN
    /\ pc = "resolve_source"
    /\ tpc = [s \in Sides |-> "connect"]
    /\ qi = [s \in Sides |-> 1]
    /\ sent = [s \in Sides |-> <<>>]
    /\ result = [s \in Sides |-> EmptySnapshot]
    /\ rSummary = EmptySummary
    /\ diffed = FALSE
    /\ paths = <<>>
    /\ out = <<>>
    /\ errOut = <<>>
    /\ files = <<>>
    /\ faults = {}
    /\ rExit = -1
    /\ DiffIdle
    /\ SummaryIdle
    /\ OthersIdle

\* An Err travelling up through the `?` operators of run to main.
Fail(fault) ==
    /\ faults' = faults \cup {fault}
    /\ pc' = "error"

\* resolve_profile + apply_connection_override for one side; the override
\* parser has no failing path, load_from_system has.
ResolveProfile(side) ==
    /\ pc = (IF side = "source" THEN "resolve_source" ELSE "resolve_target")
    /\ \E ok \in BOOLEAN :
        IF ok
        THEN /\ pc' = IF side = "source" THEN "resolve_target" ELSE "runtime"
             /\ UNCHANGED faults
        ELSE Fail("config")
    /\ UNCHANGED <<cmd, quiet, fetchVars, rSummary, diffed, paths, out, errOut,
                   files, rExit>>
    /\ UNCHANGED <<diffVars, summaryVars, textVars, renderVars>>

\* Runtime::new()?
NewRuntime ==
    /\ pc = "runtime"
    /\ \E ok \in BOOLEAN :
        IF ok
        THEN /\ pc' = "fetch"
             /\ UNCHANGED faults
        ELSE Fail("runtime")
    /\ UNCHANGED <<cmd, quiet, fetchVars, rSummary, diffed, paths, out, errOut,
                   files, rExit>>
    /\ UNCHANGED <<diffVars, summaryVars, textVars, renderVars>>

\* A variant of TryJoinReady that waits for every future, as join! does.
JoinAllReady(t) == \A s \in Sides : t[s] \in {"done", "failed"}

\* tokio::try_join!: ready as soon as one future returned Err, or when every
\* future returned Ok.
TryJoinReady(t) ==
    \/ \E s \in Sides : t[s] = "failed"
    \/ \A s \in Sides : t[s] = "done"

\* A variant of FetchSucceeded that is content with one Snapshot.
FetchSucceededAny(t) == \E s \in Sides : t[s] = "done"

\* The join yields Ok only when both futures returned Ok.
FetchSucceeded(t) == \A s \in Sides : t[s] = "done"

\* A fetch_snapshot future is polled only while the join is pending.
Polled(side, at) ==
    /\ pc = "fetch"
    /\ ~TryJoinReady(tpc)
    /\ tpc[side] = at

\* client::connect(settings).await? : TCP connect and login, no statement.
Connect(side) ==
    /\ Polled(side, "connect")
    /\ \E ok \in BOOLEAN :
        IF ok
        THEN /\ tpc' = [tpc EXCEPT ![side] = "send"]
             /\ UNCHANGED faults
        ELSE /\ tpc' = [tpc EXCEPT ![side] = "failed"]
             /\ faults' = faults \cup {"connection"}
    /\ UNCHANGED <<cmd, quiet, pc, qi, sent, result, rSummary, diffed, paths,
                   out, errOut, files, rExit>>
    /\ UNCHANGED <<diffVars, summaryVars, textVars, renderVars>>

\* executor::run_query, first half: the statement goes to the server.
SendQuery(side) ==
    /\ Polled(side, "send")
    /\ sent' = [sent EXCEPT ![side] = Append(@, QueryOrder[qi[side]])]
    /\ tpc' = [tpc EXCEPT ![side] = "recv"]
    /\ UNCHANGED <<cmd, quiet, pc, qi, result, rSummary, diffed, paths, out,
                   errOut, files, faults, rExit>>
    /\ UNCHANGED <<diffVars, summaryVars, textVars, renderVars>>

\* A variant of RecvQuery that sends a failed statement again.
RecvQueryRetry(side) ==
    /\ Polled(side, "recv")
    /\ \E ok \in BOOLEAN :
        IF ~ok
        THEN /\ tpc' = [tpc EXCEPT ![side] = "send"]
             /\ UNCHANGED <<qi, result, faults>>
        ELSE IF qi[side] < Len(QueryOrder)
        THEN /\ tpc' = [tpc EXCEPT ![side] = "send"]
             /\ qi' = [qi EXCEPT ![side] = @ + 1]
             /\ UNCHANGED <<result, faults>>
        ELSE /\ tpc' = [tpc EXCEPT ![side] = "done"]
             /\ \E cat \in Catalogs(ProfileName(side)) :
                    result' = [result EXCEPT ![side] = cat]
             /\ UNCHANGED <<qi, faults>>
    /\ UNCHANGED <<cmd, quiet, pc, sent, rSummary, diffed, paths, out, errOut,
                   files, rExit>>
    /\ UNCHANGED <<diffVars, summaryVars, textVars, renderVars>>

\* A variant of RecvQuery in which both fetches write the rows they mapped
\* into one Snapshot they share.
RecvQueryShared(side) ==
    /\ Polled(side, "recv")
    /\ \E ok \in BOOLEAN :
        IF ~ok
        THEN /\ tpc' = [tpc EXCEPT ![side] = "failed"]
             /\ faults' = faults \cup {"query"}
             /\ UNCHANGED <<qi, result>>
        ELSE IF qi[side] < Len(QueryOrder)
        THEN /\ tpc' = [tpc EXCEPT ![side] = "send"]
             /\ qi' = [qi EXCEPT ![side] = @ + 1]
             /\ UNCHANGED <<result, faults>>
        ELSE /\ tpc' = [tpc EXCEPT ![side] = "done"]
             /\ \E cat \in Catalogs(ProfileName(side)) :
                    result' = [s \in Sides |-> cat]
             /\ UNCHANGED <<qi, faults>>
    /\ UNCHANGED <<cmd, quiet, pc, sent, rSummary, diffed, paths, out, errOut,
                   files, rExit>>
    /\ UNCHANGED <<diffVars, summaryVars, textVars, renderVars>>

\* executor::run_query, second half: the result sets arrive or the query
\* fails; after the fifth result the rows are mapped into the Snapshot.
RecvQuery(side) ==
    /\ Polled(side, "recv")
    /\ \E ok \in BOOLEAN :
        IF ~ok
        THEN /\ tpc' = [tpc EXCEPT ![side] = "failed"]
             /\ faults' = faults \cup {"query"}
             /\ UNCHANGED <<qi, result>>
        ELSE IF qi[side] < Len(QueryOrder)
        THEN /\ tpc' = [tpc EXCEPT ![side] = "send"]
             /\ qi' = [qi EXCEPT ![side] = @ + 1]
             /\ UNCHANGED <<result, faults>>
        ELSE /\ tpc' = [tpc EXCEPT ![side] = "done"]
             /\ \E cat \in Catalogs(ProfileName(side)) :
                    result' = [result EXCEPT ![side] = cat]
             /\ UNCHANGED <<qi, faults>>
    /\ UNCHANGED <<cmd, quiet, pc, sent, rSummary, diffed, paths, out, errOut,
                   files, rExit>>
    /\ UNCHANGED <<diffVars, summaryVars, textVars, renderVars>>

\* try_join! returns to run: both Snapshots, or the first Err with every
\* unfinished future dropped and the finished Snapshot discarded.
JoinReturn ==
    /\ pc = "fetch"
    /\ TryJoinReady(tpc)
    /\ IF FetchSucceeded(tpc)
       THEN /\ pc' = "dispatch"
            /\ UNCHANGED <<tpc, result>>
       ELSE /\ pc' = "error"
            /\ tpc' = [s \in Sides |->
                        IF tpc[s] \in {"done", "failed"} THEN tpc[s] ELSE "cancelled"]
            /\ result' = [s \in Sides |-> EmptySnapshot]
    /\ UNCHANGED <<cmd, quiet, qi, sent, rSummary, diffed, paths, out, errOut,
                   files, faults, rExit>>
    /\ UNCHANGED <<diffVars, summaryVars, textVars, renderVars>>

\* A variant of PathFor that tests apply_script before object.
PathForApplyFirst(c) ==
    IF c.apply_script THEN "apply"
    ELSE IF c.object # <<>> THEN "object"
    ELSE IF c.summary THEN "summary"
    ELSE "snapshot"

\* The cascade of if-blocks after the fetch, each ending in a return.
PathFor(c) ==
    IF c.object # <<>> THEN "object"
    ELSE IF c.apply_script THEN "apply"
    ELSE IF c.summary THEN "summary"
    ELSE "snapshot"

Emit(kind, body) == Append(out, [kind |-> kind, body |-> body])

\* handle_object_diff, and run returning Ok after it.
ObjectDiff ==
    /\ pc = "dispatch"
    /\ PathFor(cmd) = "object"
    /\ LET object == cmd.object[1]
           left_obj == PickFirstModule(result["source"], object)
           right_obj == PickFirstModule(result["target"], object)
           norm_left == IF left_obj = <<>> THEN <<>>
                        ELSE NormalizeDefinition(left_obj[1].definition,
                                 cmd.ignore_whitespace, cmd.strip_comments)
           norm_right == IF right_obj = <<>> THEN <<>>
                         ELSE NormalizeDefinition(right_obj[1].definition,
                                  cmd.ignore_whitespace, cmd.strip_comments)
           raw_left == IF left_obj = <<>> THEN <<>>
                       ELSE ReplaceCrLf(left_obj[1].definition)
           raw_right == IF right_obj = <<>> THEN <<>>
                        ELSE ReplaceCrLf(right_obj[1].definition)
       IN  IF left_obj = <<>> /\ right_obj = <<>>
           THEN /\ out' = Emit("not_found", <<>>)
                /\ rExit' = ExitNotFound
           ELSE IF left_obj # <<>> /\ right_obj # <<>> /\ norm_left = norm_right
           THEN /\ out' = IF quiet THEN out ELSE Emit("no_substantive_drift", <<>>)
                /\ rExit' = ExitOk
           ELSE IF left_obj # <<>> /\ right_obj # <<>>
           THEN /\ out' = Emit("unified_diff", <<raw_left, raw_right>>)
                /\ rExit' = ExitDrift
           ELSE /\ out' = Emit("left_right", <<raw_left, raw_right>>)
                /\ rExit' = ExitDrift
    /\ paths' = Append(paths, "object")
    /\ pc' = "exited"
    /\ UNCHANGED <<cmd, quiet, fetchVars, rSummary, diffed, errOut, files, faults>>
    /\ UNCHANGED <<diffVars, summaryVars, textVars, renderVars>>

\* let summary = summarize(...), line 143.
Summarized ==
    /\ \E h \in Seeds :
        rSummary' = Summarize(result["source"], result["target"],
                              cmd.ignore_whitespace, cmd.strip_comments,
                              h, MaxSeed - h)
    /\ diffed' = TRUE

\* render_apply_script + write_apply_script, and run returning after it.
ApplyScript ==
    /\ pc = "dispatch"
    /\ PathFor(cmd) = "apply"
    /\ Summarized
    /\ paths' = Append(paths, "apply")
    /\ \E path \in ApplyPaths, dirOk \in BOOLEAN, writeOk \in BOOLEAN :
        IF path = "-"
        THEN /\ out' = Emit("apply_script", <<>>)
             /\ pc' = "exited"
             /\ rExit' = ExitOk
             /\ UNCHANGED <<files, faults>>
        ELSE IF HasParentDir(path) /\ ~dirOk
        THEN /\ Fail("create_dir")
             /\ UNCHANGED <<out, files, rExit>>
        ELSE IF ~writeOk
        THEN /\ Fail("write")
             /\ UNCHANGED <<out, files, rExit>>
        ELSE /\ files' = Append(files, path)
             /\ out' = Emit("confirmation", <<>>)
             /\ pc' = "exited"
             /\ rExit' = ExitOk
             /\ UNCHANGED faults
    /\ UNCHANGED <<cmd, quiet, fetchVars, errOut>>
    /\ UNCHANGED <<diffVars, summaryVars, textVars, renderVars>>

\* output_summary: JSON, compact or tables, printed unless --quiet.
OutputSummary ==
    /\ pc = "dispatch"
    /\ PathFor(cmd) = "summary"
    /\ Summarized
    /\ paths' = Append(paths, "summary")
    /\ \E kind \in {"summary_json", "summary_compact", "summary_tables"} :
        out' = IF quiet THEN out ELSE Emit(kind, <<>>)
    /\ pc' = "summary_done"
    /\ UNCHANGED <<cmd, quiet, fetchVars, errOut, files, faults, rExit>>
    /\ UNCHANGED <<diffVars, summaryVars, textVars, renderVars>>

\* Lines 166-170: exit(3) on drift, else return Ok.
SummaryExit ==
    /\ pc = "summary_done"
    /\ rExit' = IF HasDrift(rSummary) THEN ExitDrift ELSE ExitOk
    /\ pc' = "exited"
    /\ UNCHANGED <<cmd, quiet, fetchVars, rSummary, diffed, paths, out, errOut,
                   files, faults>>
    /\ UNCHANGED <<diffVars, summaryVars, textVars, renderVars>>

\* Lines 173-188: the full snapshot output when no mode flag is given.
SnapshotOutput ==
    /\ pc = "dispatch"
    /\ PathFor(cmd) = "snapshot"
    /\ Summarized
    /\ paths' = Append(paths, "snapshot")
    /\ \E json \in BOOLEAN :
        out' = IF json
               THEN (IF quiet THEN out ELSE Emit("snapshot_json", <<>>))
               ELSE Emit("hint", <<>>)
    /\ pc' = "exited"
    /\ rExit' = ExitOk
    /\ UNCHANGED <<cmd, quiet, fetchVars, errOut, files, faults>>
    /\ UNCHANGED <<diffVars, summaryVars, textVars, renderVars>>

\* main: the Err of run is printed once and the process exits with 1.
MainError ==
    /\ pc = "error"
    /\ errOut' = Append(errOut, faults)
    /\ rExit' = ExitError
    /\ pc' = "exited"
    /\ UNCHANGED <<cmd, quiet, fetchVars, rSummary, diffed, paths, out, files,
                   faults>>
    /\ UNCHANGED <<diffVars, summaryVars, textVars, renderVars>>

Next ==
    \/ \E side \in Sides : ResolveProfile(side)
    \/ NewRuntime
    \/ \E side \in Sides : Connect(side)
    \/ \E side \in Sides : SendQuery(side)
    \/ \E side \in Sides : RecvQuery(side)
    \/ JoinReturn
    \/ ObjectDiff
    \/ ApplyScript
    \/ OutputSummary
    \/ SummaryExit
    \/ SnapshotOutput
    \/ MainError

Spec == Init /\ [][Next]_vars

\* ---------------------------------------------------------------------------
\* Claims about the compare command
\* ---------------------------------------------------------------------------

BothFetched == \A s \in Sides : tpc[s] = "done"

SomeFetchFailed == \E s \in Sides : tpc[s] = "failed"

\* C5: no comparison output (summary, JSON, unified diff, apply script on
\* stdout, apply-script file, confirmation line) exists and nothing has been
\* diffed unless both fetches completed successfully; once a fetch has failed
\* no presentation path runs, nothing is diffed and no output is produced.
C5_NoOutputBeforeBothFetched ==
    /\ (out # <<>> \/ files # <<>> \/ diffed \/ paths # <<>>) => BothFetched
    /\ SomeFetchFailed =>
        /\ out = <<>>
        /\ files = <<>>
        /\ ~diffed
        /\ paths = <<>>
        /\ rSummary = EmptySummary

\* A script file and its confirmation line, written after both fetches.
C5_Witness ==
    /\ BothFetched
    /\ files # <<>>
    /\ Len(out) = 1
    /\ out[1].kind = "confirmation"
    /\ diffed

\* C6: from the moment one fetch has failed, the only step of the fetch phase
\* is the join returning that error: the sibling sends no further query, makes
\* no further progress, no second failure is recorded, and a sibling that had
\* not finished is cancelled.
C6_SiblingCancelled ==
    [][(pc = "fetch" /\ SomeFetchFailed) =>
        /\ pc' = "error"
        /\ sent' = sent
        /\ qi' = qi
        /\ faults' = faults
        /\ \A s \in Sides :
            tpc'[s] = (IF tpc[s] \in {"done", "failed"} THEN tpc[s] ELSE "cancelled")]_vars

\* The source failed at a query while the target had a query in flight.
C6_Witness ==
    /\ tpc["source"] = "failed"
    /\ tpc["target"] = "cancelled"
    /\ Len(sent["source"]) = 2
    /\ Len(sent["target"]) = 3
    /\ rExit = 1

IsPrefix(s, t) == Len(s) <= Len(t) /\ s = SubSeq(t, 1, Len(s))

\* C7: what each side has been sent is always a prefix of modules, indexes,
\* constraints, tables, table-columns; a side whose fetch failed is sent
\* nothing more, and nothing is sent once the fetch phase is over, whatever
\* the output mode.
C7_OnlyCatalogQueries ==
    /\ [](\A s \in Sides :
            IsPrefix(sent[s], <<"modules", "indexes", "constraints", "tables",
                                "table_columns">>))
    /\ [][\A s \in Sides :
            (tpc[s] = "failed" \/ pc # "fetch") => sent'[s] = sent[s]]_vars

\* The apply-script mode ran to its end after exactly five queries per side.
C7_Witness ==
    /\ pc = "exited"
    /\ paths = <<"apply">>
    /\ out # <<>>
    /\ \A s \in Sides : Len(sent[s]) = 5

PathByPrecedence ==
    IF cmd.object # <<>> THEN "object"
    ELSE IF cmd.apply_script THEN "apply"
    ELSE IF cmd.summary THEN "summary"
    ELSE "snapshot"

\* C8 as stated: after both fetches exactly one of object-diff, apply-script
\* and summary runs, chosen by precedence.
C8_OneOfThreePaths ==
    (pc = "exited" /\ BothFetched) =>
        /\ Len(paths) = 1
        /\ paths[1] \in {"object", "apply", "summary"}
        /\ cmd.object # <<>> => paths[1] = "object"
        /\ (cmd.object = <<>> /\ cmd.apply_script) => paths[1] = "apply"

\* C8: at most one presentation path ever runs; after both fetches exactly one
\* of object-diff, apply-script, summary and the full snapshot output has run
\* when the process ends: object-diff if --object is given, else apply-script
\* if --apply-script is given, else summary if the summary flag is given, else
\* the full snapshot output.
C8_OneOfFourPaths ==
    /\ Len(paths) <= 1
    /\ (pc = "exited" /\ BothFetched) =>
        /\ Len(paths) = 1
        /\ paths[1] = PathByPrecedence
    /\ paths # <<>> => paths[1] = PathByPrecedence

\* All three flags given: only the object diff ran.
C8_Witness ==
    /\ pc = "exited"
    /\ cmd.object # <<>>
    /\ cmd.apply_script
    /\ cmd.summary
    /\ paths = <<"object">>

AnyListNonEmpty(summary) ==
    \E cat \in Categories :
        \/ summary[cat].changed # <<>>
        \/ summary[cat].missing_in_right # <<>>
        \/ summary[cat].missing_in_left # <<>>

C10_FailureExitCode ==
    /\ faults # {} =>
        /\ rExit \notin {0, 3, 4}
        /\ Len(errOut) <= 1
        /\ pc = "exited" => (rExit # -1 /\ Len(errOut) = 1)
    /\ rExit \in {3, 4} => (BothFetched /\ faults = {})
    /\ faults = {} => errOut = <<>>

\* The apply script could not be written after a successful fetch.
C10_Witness ==
    /\ pc = "exited"
    /\ faults = {"write"}
    /\ BothFetched
    /\ rExit = 1

\* ---------------------------------------------------------------------------
\* ApplyScriptSynthesizer: type_keyword and create_or_alter
\* ---------------------------------------------------------------------------

\* type_keyword(code)
TypeKeyword(code) ==
    IF code = <<"P">> THEN <<"P", "R", "O", "C", "E", "D", "U", "R", "E">>
    ELSE IF code = <<"V">> THEN <<"V", "I", "E", "W">>
    ELSE IF code \in {<<"F", "N">>, <<"I", "F">>, <<"T", "F">>} THEN <<"F", "U", "N", "C", "T", "I", "O", "N">>
    ELSE IF code = <<"T", "R">> THEN <<"T", "R", "I", "G", "G", "E", "R">>
    ELSE <<"O", "B", "J", "E", "C", "T">>

Digits == <<"0", "1", "2", "3", "4", "5", "6", "7", "8", "9">>

\* \w of the regex crate, on the characters of Alphabet.
IsWordChar(c) ==
    \/ \E i \in 1..Len(UpperChars) : c = UpperChars[i] \/ c = LowerChars[i]
    \/ \E i \in 1..Len(Digits) : c = Digits[i]
    \/ c = "_"

\* \b between s[i - 1] and s[i], for i in 1..Len(s) + 1.
WordBoundary(s, i) ==
    LET before == i > 1 /\ IsWordChar(s[i - 1])
        after == i <= Len(s) /\ IsWordChar(s[i])
    IN  before # after

\* (?i)w matched at s[i..]
MatchWordAt(s, i, w) ==
    /\ i + Len(w) - 1 <= Len(s)
    /\ \A k \in 1..Len(w) : AsciiLower(s[i + k - 1]) = AsciiLower(w[k])

RECURSIVE SkipSpaces(_, _)
\* The index after the run of \s that starts at i.
SkipSpaces(s, i) ==
    IF i <= Len(s) /\ IsSpace(s[i]) THEN SkipSpaces(s, i + 1) ELSE i

\* (?i)w\s+ matched at s[i..]: the index after it, or 0.
WordSpacesEnd(s, i, w) ==
    IF MatchWordAt(s, i, w) /\ i + Len(w) <= Len(s) /\ IsSpace(s[i + Len(w)])
    THEN SkipSpaces(s, i + Len(w))
    ELSE 0

\* (?i)\bCREATE\s+(OR\s+ALTER\s+)?{type_key}\b matched at s[i..]: the index
\* after the match, or 0.
TypedClauseEnd(s, i, type_key) ==
    LET c == IF WordBoundary(s, i) THEN WordSpacesEnd(s, i, <<"C", "R", "E", "A", "T", "E">>) ELSE 0
        o == IF c = 0 THEN 0 ELSE WordSpacesEnd(s, c, <<"O", "R">>)
        a == IF o = 0 THEN 0 ELSE WordSpacesEnd(s, o, <<"A", "L", "T", "E", "R">>)
        Closed(k) == /\ k # 0
                     /\ MatchWordAt(s, k, type_key)
                     /\ WordBoundary(s, k + Len(type_key))
    IN  IF Closed(a) THEN a + Len(type_key)
        ELSE IF Closed(c) THEN c + Len(type_key)
        ELSE 0

\* (?i)\bCREATE\b matched at s[i..]: the index after the match, or 0.
BareCreateEnd(s, i) ==
    IF WordBoundary(s, i) /\ MatchWordAt(s, i, <<"C", "R", "E", "A", "T", "E">>) /\ WordBoundary(s, i + 6)
    THEN i + 6
    ELSE 0

\* Regex::replace: the leftmost match, given by its start and end indexes, is
\* replaced once; without a match the text is returned as it is.
ReplaceFirst(s, starts, endOf, replacement) ==
    IF starts = {} THEN s
    ELSE LET i == CHOOSE k \in starts : \A j \in starts : k <= j
         IN  SubSeq(s, 1, i - 1) \o replacement \o SubSeq(s, endOf[i], Len(s))

\* A variant of create_or_alter that adds OR ALTER after every CREATE clause,
\* also one that already holds it.
CreateOrAlterAppend(definition, type_key) ==
    LET cleaned == Trim(definition)
        bareEnd == [i \in 1..Len(cleaned) |-> BareCreateEnd(cleaned, i)]
    IN  ReplaceFirst(cleaned, {i \in 1..Len(cleaned) : bareEnd[i] # 0}, bareEnd,
                     <<"C", "R", "E", "A", "T", "E", " ", "O", "R", " ", "A", "L", "T", "E", "R", " ">> \o type_key)

\* create_or_alter(definition, type_key)
CreateOrAlter(definition, type_key) ==
    LET cleaned == Trim(definition)
        typedEnd == [i \in 1..Len(cleaned) |-> TypedClauseEnd(cleaned, i, type_key)]
        bareEnd == [i \in 1..Len(cleaned) |-> BareCreateEnd(cleaned, i)]
        typed == {i \in 1..Len(cleaned) : typedEnd[i] # 0}
        replacement == <<"C", "R", "E", "A", "T", "E", " ", "O", "R", " ", "A", "L", "T", "E", "R", " ">> \o type_key
    IN  IF typed # {}
        THEN ReplaceFirst(cleaned, typed, typedEnd, replacement)
        ELSE ReplaceFirst(cleaned, {i \in 1..Len(cleaned) : bareEnd[i] # 0},
                          bareEnd, replacement)

\* ---------------------------------------------------------------------------
\* create_or_alter applied twice
\* ---------------------------------------------------------------------------

MaxTokens == 4      \* tokens per definition text given to create_or_alter

RECURSIVE Flatten(_)
\* The concatenation of a sequence of texts.
Flatten(ts) == IF ts = <<>> THEN <<>> ELSE Head(ts) \o Flatten(Tail(ts))

\* The texts made of at most n tokens.
TextsOf(tokens, n) ==
    UNION {{Flatten(ts) : ts \in [1..k -> tokens]} : k \in 0..n}

CoaTokens ==
    {<<"C", "R", "E", "A", "T", "E", " ">>, <<"c", "r", "e", "a", "t", "e", "LF">>, <<"O", "R", " ", "A", "L", "T", "E", "R", " ">>, <<"V", "I", "E", "W">>, <<" ">>, <<"x">>,
     <<"C", "R", "E", "A", "T", "E">>}

CoaTypes == {<<"V", "I", "E", "W">>, <<"P", "R", "O", "C", "E", "D", "U", "R", "E">>}

InitCreateOrAlter ==
    /\ fIn \in TextsOf(CoaTokens, MaxTokens)
    /\ fType \in CoaTypes
    /\ fFlags = [ignore_whitespace |-> FALSE, strip_comments |-> FALSE]
    /\ fOnce = <<>>
    /\ fTwice = <<>>
    /\ fPc = "create_or_alter"
    /\ CfgIdle
    /\ DiffIdle
    /\ SummaryIdle
    /\ RunIdle
    /\ RenderIdle

CreateOrAlterTwice ==
    /\ fPc = "create_or_alter"
    /\ LET once == CreateOrAlter(fIn, fType)
       IN  /\ fOnce' = once
           /\ fTwice' = CreateOrAlter(once, fType)
    /\ fPc' = "rewritten"
    /\ UNCHANGED <<fIn, fType, fFlags, cfgVars>>
    /\ UNCHANGED <<diffVars, summaryVars, runVars, renderVars>>

NextCreateOrAlter == CreateOrAlterTwice

SpecCreateOrAlter == InitCreateOrAlter /\ [][NextCreateOrAlter]_vars

\* C19: create_or_alter(create_or_alter(d, t), t) = create_or_alter(d, t) for
\* every definition text d and type keyword t, whether d holds the clause
\* CREATE [OR ALTER] t in any letter case, only a bare CREATE, or no CREATE.
C19_CreateOrAlterIdempotent ==
    fPc = "rewritten" => fTwice = fOnce

HasTypedClause(s, type_key) ==
    \E i \in 1..Len(s) : TypedClauseEnd(s, i, type_key) # 0

HasBareCreate(s) == \E i \in 1..Len(s) : BareCreateEnd(s, i) # 0

\* A bare CREATE was rewritten in a text that holds no CREATE VIEW clause, and
\* the result holds the clause.
C19_Witness ==
    /\ fPc = "rewritten"
    /\ fType = <<"V", "I", "E", "W">>
    /\ ~HasTypedClause(Trim(fIn), fType)
    /\ HasBareCreate(Trim(fIn))
    /\ HasTypedClause(fOnce, fType)
    /\ Len(fOnce) > Len(Trim(fIn))

\* ---------------------------------------------------------------------------
\* normalize_definition applied twice
\* ---------------------------------------------------------------------------

NormTokens ==
    {<<"a">>, <<"CR">>, <<"CR", "LF">>, <<"/">>, <<"*">>, <<"/", "*">>, <<"*", "/">>, <<"-", "-">>,
     <<"-">>, <<"/", "*", "*", "/">>}

InitNormalize ==
    /\ fIn \in TextsOf(NormTokens, MaxTokens)
    /\ fType = <<>>
    /\ fFlags \in [ignore_whitespace : BOOLEAN, strip_comments : BOOLEAN]
    /\ fOnce = <<>>
    /\ fTwice = <<>>
    /\ fPc = "normalize"
    /\ CfgIdle
    /\ DiffIdle
    /\ SummaryIdle
    /\ RunIdle
    /\ RenderIdle

NormalizeTwice ==
    /\ fPc = "normalize"
    /\ LET once == NormalizeDefinition(fIn, fFlags.ignore_whitespace,
                                       fFlags.strip_comments)
       IN  /\ fOnce' = once
           /\ fTwice' = NormalizeDefinition(once, fFlags.ignore_whitespace,
                                            fFlags.strip_comments)
    /\ fPc' = "normalized"
    /\ UNCHANGED <<fIn, fType, fFlags, cfgVars>>
    /\ UNCHANGED <<diffVars, summaryVars, runVars, renderVars>>

NextNormalize == NormalizeTwice

SpecNormalize == InitNormalize /\ [][NextNormalize]_vars

\* C20: normalize(normalize(t, iw, sc), iw, sc) = normalize(t, iw, sc) for
\* every text t and each of the four combinations of the two flags.
C20_NormalizeIdempotent ==
    fPc = "normalized" => fTwice = fOnce

\* ---------------------------------------------------------------------------
\* ApplyScriptSynthesizer: columns and tables
\* ---------------------------------------------------------------------------

TableColumnRow(schema, table, id, name, type, len, prec, scale, nullable, identity, default, computed) ==
    [schema_name |-> schema, table_name |-> table, column_id |-> id,
     column_name |-> name, data_type |-> type, max_length |-> len,
     precision |-> prec, scale |-> scale, is_nullable |-> nullable,
     is_identity |-> identity, default_definition |-> default,
     computed_definition |-> computed]

RECURSIVE Join(_, _)
\* [String]::join(sep)
Join(parts, sep) ==
    IF parts = <<>> THEN <<>>
    ELSE IF Len(parts) = 1 THEN parts[1]
    ELSE parts[1] \o sep \o Join(Tail(parts), sep)

RECURSIVE NatToStr(_)
NatToStr(n) ==
    IF n < 10 THEN <<Digits[n + 1]>>
    ELSE NatToStr(n \div 10) \o <<Digits[(n % 10) + 1]>>

\* i64::to_string
IntToStr(n) == IF n < 0 THEN <<"-">> \o NatToStr(-n) ELSE NatToStr(n)

\* str::split_once('.') with unwrap_or(("", key))
SplitOnce(key) ==
    IF \E i \in 1..Len(key) : key[i] = "."
    THEN LET i == CHOOSE j \in 1..Len(key) :
                    key[j] = "." /\ \A k \in 1..(j - 1) : key[k] # "."
         IN  <<SubSeq(key, 1, i - 1), SubSeq(key, i + 1, Len(key))>>
    ELSE <<<<>>, key>>

RECURSIVE InsertByColumnId(_, _)
\* Inserts after the rows whose column_id is not greater: a stable sort.
InsertByColumnId(sorted, row) ==
    IF sorted = <<>> THEN <<row>>
    ELSE IF row.column_id < Head(sorted).column_id THEN <<row>> \o sorted
    ELSE <<Head(sorted)>> \o InsertByColumnId(Tail(sorted), row)

RECURSIVE SortByColumnId(_)
\* cols.sort_by_key(|c| c.column_id)
SortByColumnId(rows) ==
    IF rows = <<>> THEN <<>>
    ELSE InsertByColumnId(SortByColumnId(SubSeq(rows, 1, Len(rows) - 1)),
                          rows[Len(rows)])

\* columns_by_table(rows): "schema.table" -> that table's rows by column_id.
ColumnsByTable(rows) ==
    LET keys == {TableKey(rows[i]) : i \in 1..Len(rows)}
    IN  [k \in keys |-> SortByColumnId(SelectSeq(rows, LAMBDA r : TableKey(r) = k))]

\* map.get(key).cloned().unwrap_or_default()
GetOrEmpty(map, key) == IF key \in DOMAIN map THEN map[key] ELSE <<>>

LengthTypes ==
    {<<"v", "a", "r", "c", "h", "a", "r">>, <<"c", "h", "a", "r">>, <<"n", "v", "a", "r", "c", "h", "a", "r">>, <<"n", "c", "h", "a", "r">>, <<"v", "a", "r", "b", "i", "n", "a", "r", "y">>, <<"b", "i", "n", "a", "r", "y">>}

\* A variant of format_type that prints the stored length of every type.
FormatTypeStoredLength(col) ==
    LET dt == ToLowercase(col.data_type)
        size == IF col.max_length = -1 THEN <<"m", "a", "x">> ELSE IntToStr(col.max_length)
    IN  IF dt \in LengthTypes
        THEN dt \o <<"(">> \o size \o <<")">>
        ELSE IF dt \in {<<"d", "e", "c", "i", "m", "a", "l">>, <<"n", "u", "m", "e", "r", "i", "c">>}
        THEN dt \o <<"(">> \o IntToStr(col.precision) \o <<",">>
                \o IntToStr(col.scale) \o <<")">>
        ELSE IF dt \in {<<"d", "a", "t", "e", "t", "i", "m", "e", "2">>, <<"t", "i", "m", "e">>, <<"d", "a", "t", "e", "t", "i", "m", "e", "o", "f", "f", "s", "e", "t">>}
        THEN dt \o <<"(">> \o IntToStr(col.scale) \o <<")">>
        ELSE dt

\* format_type(col)
FormatType(col) ==
    LET dt == ToLowercase(col.data_type)
        l == IF dt \in {<<"n", "v", "a", "r", "c", "h", "a", "r">>, <<"n", "c", "h", "a", "r">>} /\ col.max_length > 0
             THEN col.max_length \div 2
             ELSE col.max_length
        size == IF l = -1 THEN <<"m", "a", "x">> ELSE IntToStr(l)
    IN  IF dt \in LengthTypes
        THEN dt \o <<"(">> \o size \o <<")">>
        ELSE IF dt \in {<<"d", "e", "c", "i", "m", "a", "l">>, <<"n", "u", "m", "e", "r", "i", "c">>}
        THEN dt \o <<"(">> \o IntToStr(col.precision) \o <<",">>
                \o IntToStr(col.scale) \o <<")">>
        ELSE IF dt \in {<<"d", "a", "t", "e", "t", "i", "m", "e", "2">>, <<"t", "i", "m", "e">>, <<"d", "a", "t", "e", "t", "i", "m", "e", "o", "f", "f", "s", "e", "t">>}
        THEN dt \o <<"(">> \o IntToStr(col.scale) \o <<")">>
        ELSE dt

\* column_definition(col)
ColumnDefinition(col) ==
    IF col.computed_definition # <<>>
    THEN <<"[">> \o col.column_name \o <<"]", " ", "A", "S", " ">> \o col.computed_definition
    ELSE Join(<< <<"[">> \o col.column_name \o <<"]">>, FormatType(col) >>
              \o (IF col.is_identity THEN <<<<"I", "D", "E", "N", "T", "I", "T", "Y">>>> ELSE <<>>)
              \o << IF col.is_nullable THEN <<"N", "U", "L", "L">> ELSE <<"N", "O", "T", " ", "N", "U", "L", "L">> >>
              \o (IF col.default_definition # <<>>
                  THEN <<<<"D", "E", "F", "A", "U", "L", "T", " ">> \o col.default_definition>>
                  ELSE <<>>),
              <<" ">>)

\* [f(rows[i])] for the column rows of a sequence.
ColumnDefinitions(cols) == [i \in 1..Len(cols) |-> ColumnDefinition(cols[i])]

\* A variant of render_add_columns that also drops the columns the target has
\* and the source lacks.
RenderAddColumnsAndDrops(table_key, source_cols, target_cols) ==
    LET source_by_name ==
            {ToLowercase(source_cols[i].column_name) : i \in 1..Len(source_cols)}
        target_by_name ==
            {ToLowercase(target_cols[i].column_name) : i \in 1..Len(target_cols)}
        to_add == SelectSeq(source_cols,
                      LAMBDA c : ToLowercase(c.column_name) \notin target_by_name)
        to_drop == SelectSeq(target_cols,
                      LAMBDA c : ToLowercase(c.column_name) \notin source_by_name)
        schema == SplitOnce(table_key)[1]
        table == SplitOnce(table_key)[2]
        alter == <<"A", "L", "T", "E", "R", " ", "T", "A", "B", "L", "E", " ", "[">> \o schema \o <<"]", ".", "[">> \o table \o <<"]">>
    IN  (IF to_add = <<>> THEN <<>>
         ELSE << <<"-", "-", " ", "A", "d", "d", "i", "n", "g", " ">> \o IntToStr(Len(to_add)) \o <<" ", "c", "o", "l", "u", "m", "n", "(", "s", ")", " ", "t", "o", " ">>
                    \o schema \o <<".">> \o table,
                 alter,
                 <<" ", " ", "A", "D", "D", " ">> \o Join(ColumnDefinitions(to_add), <<",", "LF", " ", " ", " ", " ", " ", " ">>),
                 <<"G", "O">>,
                 <<>> >>)
        \o Flatten([i \in 1..Len(to_drop) |->
               << alter, <<" ", " ", "D", "R", "O", "P", " ", "C", "O", "L", "U", "M", "N", " ", "[">> \o to_drop[i].column_name \o <<"]">>, <<"G", "O">> >>])

\* A variant of render_add_columns that matches column names exactly.
RenderAddColumnsCaseSensitive(table_key, source_cols, target_cols) ==
    LET target_by_name == {target_cols[i].column_name : i \in 1..Len(target_cols)}
        to_add == SelectSeq(source_cols, LAMBDA c : c.column_name \notin target_by_name)
        schema == SplitOnce(table_key)[1]
        table == SplitOnce(table_key)[2]
    IN  IF to_add = <<>> THEN <<>>
        ELSE << <<"-", "-", " ", "A", "d", "d", "i", "n", "g", " ">> \o IntToStr(Len(to_add)) \o <<" ", "c", "o", "l", "u", "m", "n", "(", "s", ")", " ", "t", "o", " ">>
                    \o schema \o <<".">> \o table,
                <<"A", "L", "T", "E", "R", " ", "T", "A", "B", "L", "E", " ", "[">> \o schema \o <<"]", ".", "[">> \o table \o <<"]">>,
                <<" ", " ", "A", "D", "D", " ">> \o Join(ColumnDefinitions(to_add), <<",", "LF", " ", " ", " ", " ", " ", " ">>),
                <<"G", "O">>,
                <<>> >>

\* render_add_columns(table_key, source_cols, target_cols)
RenderAddColumns(table_key, source_cols, target_cols) ==
    LET target_by_name ==
            {ToLowercase(target_cols[i].column_name) : i \in 1..Len(target_cols)}
        to_add == SelectSeq(source_cols,
                      LAMBDA c : ToLowercase(c.column_name) \notin target_by_name)
        schema == SplitOnce(table_key)[1]
        table == SplitOnce(table_key)[2]
    IN  IF to_add = <<>> THEN <<>>
        ELSE << <<"-", "-", " ", "A", "d", "d", "i", "n", "g", " ">> \o IntToStr(Len(to_add)) \o <<" ", "c", "o", "l", "u", "m", "n", "(", "s", ")", " ", "t", "o", " ">>
                    \o schema \o <<".">> \o table,
                <<"A", "L", "T", "E", "R", " ", "T", "A", "B", "L", "E", " ", "[">> \o schema \o <<"]", ".", "[">> \o table \o <<"]">>,
                <<" ", " ", "A", "D", "D", " ">> \o Join(ColumnDefinitions(to_add), <<",", "LF", " ", " ", " ", " ", " ", " ">>),
                <<"G", "O">>,
                <<>> >>

RECURSIVE JsonStringEnd(_, _)
\* The index of the quote that closes a JSON string whose content starts at
\* s[i], or 0 when the string is not closed.
JsonStringEnd(s, i) ==
    IF i > Len(s) THEN 0
    ELSE IF s[i] = "\\" THEN JsonStringEnd(s, i + 2)
    ELSE IF s[i] = "\"" THEN i
    ELSE JsonStringEnd(s, i + 1)

RECURSIVE JsonUnescape(_)
\* The text denoted by the content of a JSON string.
JsonUnescape(s) ==
    IF s = <<>> THEN <<>>
    ELSE IF s[1] = "\\" /\ Len(s) >= 2
    THEN (IF s[2] = "n" THEN <<"LF">>
          ELSE IF s[2] = "r" THEN <<"CR">>
          ELSE IF s[2] = "t" THEN <<"TAB">>
          ELSE <<s[2]>>) \o JsonUnescape(SubSeq(s, 3, Len(s)))
    ELSE <<s[1]>> \o JsonUnescape(Tail(s))

RECURSIVE JsonMembers(_, _, _)
\* The members "key":"value" of a compact JSON object from s[i] on, added to
\* the function acc; <<FALSE, acc>> when the text is no such object.
JsonMembers(s, i, acc) ==
    LET ke == IF i <= Len(s) /\ s[i] = "\"" THEN JsonStringEnd(s, i + 1) ELSE 0
        ve == IF ke # 0 /\ ke + 2 <= Len(s) /\ s[ke + 1] = ":" /\ s[ke + 2] = "\""
              THEN JsonStringEnd(s, ke + 3)
              ELSE 0
        key == JsonUnescape(SubSeq(s, i + 1, ke - 1))
        val == JsonUnescape(SubSeq(s, ke + 3, ve - 1))
        more == [k \in DOMAIN acc \cup {key} |-> IF k = key THEN val ELSE acc[k]]
    IN  IF ve = 0 \/ ve + 1 > Len(s) THEN <<FALSE, acc>>
        ELSE IF s[ve + 1] = "}" /\ ve + 1 = Len(s) THEN <<TRUE, more>>
        ELSE IF s[ve + 1] = "," THEN JsonMembers(s, ve + 2, more)
        ELSE <<FALSE, acc>>

EmptyTableRowSignature == [columns |-> <<>>, indexes |-> <<>>, checks |-> <<>>]

\* parse_table_signature(sig) with the unwrap_or of diff_table_details: the
\* three fields of the signature, or three empty strings when the signature
\* is absent (<<>>) or does not parse. Signatures are written by to_string,
\* so only the compact form is read here.
ParseTableSignature(sig) ==
    IF sig = <<>> THEN EmptyTableRowSignature
    ELSE LET s == sig[1]
             parsed == IF Len(s) >= 2 /\ s[1] = "{"
                       THEN JsonMembers(s, 2, <<>>)
                       ELSE <<FALSE, <<>>>>
             fields == parsed[2]
         IN  IF parsed[1] /\ {<<"c", "o", "l", "u", "m", "n", "s">>, <<"i", "n", "d", "e", "x", "e", "s">>, <<"c", "h", "e", "c", "k", "s">>} \subseteq DOMAIN fields
             THEN [columns |-> fields[<<"c", "o", "l", "u", "m", "n", "s">>],
                   indexes |-> fields[<<"i", "n", "d", "e", "x", "e", "s">>],
                   checks |-> fields[<<"c", "h", "e", "c", "k", "s">>]]
             ELSE EmptyTableRowSignature

\* A variant of diff_table_details that never reports the indexes.
DiffTableDetailsNoIndexes(left_sig, right_sig) ==
    LET left == ParseTableSignature(left_sig)
        right == ParseTableSignature(right_sig)
    IN  [columns_changed |-> left.columns # right.columns,
         indexes_changed |-> FALSE,
         checks_changed |-> left.checks # right.checks]

\* diff_table_details(left_sig, right_sig)
DiffTableDetails(left_sig, right_sig) ==
    LET left == ParseTableSignature(left_sig)
        right == ParseTableSignature(right_sig)
    IN  [columns_changed |-> left.columns # right.columns,
         indexes_changed |-> left.indexes # right.indexes,
         checks_changed |-> left.checks # right.checks]

\* render_table_alter(key, left_sig, right_sig)
RenderTableAlter(key, left_sig, right_sig) ==
    LET changes == DiffTableDetails(left_sig, right_sig)
        schema == SplitOnce(key)[1]
        table == SplitOnce(key)[2]
    IN  Join(<< <<"-", "-", " ", "T", "O", "D", "O", ":", " ", "T", "a", "b", "l", "e", " ", "d", "r", "i", "f", "t", " ", "d", "e", "t", "e", "c", "t", "e", "d", " ", "f", "o", "r", " ">> \o schema \o <<".">> \o table >>
             \o (IF changes.columns_changed
                 THEN << <<"-", "-", " ", " ", " ", "C", "o", "l", "u", "m", "n", "s", " ", "d", "i", "f", "f", "e", "r", " ", "(", "t", "y", "p", "e", "/", "n", "u", "l", "l", "a", "b", "i", "l", "i", "t", "y", "/", "d", "e", "f", "a", "u", "l", "t", "/", "i", "d", "e", "n", "t", "i", "t", "y", "/", "c", "o", "m", "p", "u", "t", "e", "d", ")", ".", " ", "R", "e", "v", "i", "e", "w", " ", "a", "n", "d", " ", "c", "r", "a", "f", "t", " ", "A", "L", "T", "E", "R", " ", "T", "A", "B", "L", "E", " ", "f", "o", "r", " ">>
                         \o schema \o <<".">> \o table \o <<".">> >>
                 ELSE <<>>)
             \o (IF changes.indexes_changed
                 THEN << <<"-", "-", " ", " ", " ", "N", "o", "n", "-", "P", "K", "/", "u", "n", "i", "q", "u", "e", " ", "i", "n", "d", "e", "x", "e", "s", " ", "d", "i", "f", "f", "e", "r", ".", " ", "C", "o", "n", "s", "i", "d", "e", "r", " ", "r", "e", "c", "r", "e", "a", "t", "i", "n", "g", " ", "i", "n", "d", "e", "x", "e", "s", " ", "t", "o", " ", "m", "a", "t", "c", "h", " ", "s", "o", "u", "r", "c", "e", ".">> >>
                 ELSE <<>>)
             \o (IF changes.checks_changed
                 THEN << <<"-", "-", " ", " ", " ", "C", "H", "E", "C", "K", " ", "c", "o", "n", "s", "t", "r", "a", "i", "n", "t", "s", " ", "d", "i", "f", "f", "e", "r", ".", " ", "A", "l", "i", "g", "n", " ", "d", "e", "f", "i", "n", "i", "t", "i", "o", "n", "s", " ", "a", "s", " ", "n", "e", "e", "d", "e", "d", ".">> >>
                 ELSE <<>>)
             \o << <<>> >>,
             <<"LF">>)

\* ---------------------------------------------------------------------------
\* ApplyScriptSynthesizer: render_apply_script
\* ---------------------------------------------------------------------------

\* The rows of a HashMap built by inserting rows in order, as Option: <<>>
\* for None, <<v>> for Some(v).
GetOption(map, key) == IF key \in DOMAIN map THEN <<map[key]>> ELSE <<>>

\* source_map: module key -> row
SourceModuleMap(source) ==
    MapOfRows([i \in 1..Len(source.modules) |-> ModuleKey(source.modules[i])],
              source.modules)

\* source_table_sig / target_table_sig: table key -> signature text
TableSigMap(snapshot) ==
    MapOfRows([i \in 1..Len(snapshot.tables) |-> TableKey(snapshot.tables[i])],
              [i \in 1..Len(snapshot.tables) |-> TableSignature(snapshot.tables[i])])

\* emit_module(row, reason, out)
EmitModule(row, reason) ==
    LET type_key == TypeKeyword(row.type)
    IN  << <<"-", "-", " ">> \o reason \o <<":", " ">> \o row.schema_name \o <<".">> \o row.name
               \o <<" ", "(">> \o type_key \o <<")">>,
           CreateOrAlter(row.definition, type_key),
           <<"G", "O">>,
           <<>> >>

\* The blocks pushed for the keys of one list that source_map holds.
ModuleBlocks(keys, source_map, reason) ==
    Flatten([i \in 1..Len(keys) |->
                IF keys[i] \in DOMAIN source_map
                THEN EmitModule(source_map[keys[i]], reason)
                ELSE <<>>])

\* module_lines, lines 1378-1387
ModuleLines(summary, source) ==
    LET source_map == SourceModuleMap(source)
    IN  ModuleBlocks(summary.modules.changed, source_map, <<"A", "L", "T", "E", "R">>)
        \o ModuleBlocks(summary.modules.missing_in_left, source_map, <<"C", "R", "E", "A", "T", "E">>)

\* The line pushed for one key of modules.missing_in_right, if any.
DropLine(key) ==
    LET parts == SplitDot(key)
        schema == parts[1]
        name == Join(SubSeq(parts, 3, Len(parts)), <<".">>)
        type_key == TypeKeyword(parts[2])
    IN  IF Len(parts) < 3 THEN <<>>
        ELSE IF type_key \in {<<"P", "R", "O", "C", "E", "D", "U", "R", "E">>, <<"F", "U", "N", "C", "T", "I", "O", "N">>, <<"V", "I", "E", "W">>}
        THEN << <<"D", "R", "O", "P", " ">> \o type_key \o <<" ", "I", "F", " ", "E", "X", "I", "S", "T", "S", " ", "[">> \o schema \o <<"]", ".", "[">>
                   \o name \o <<"]", ";">> >>
        ELSE << <<"-", "-", " ", "T", "O", "D", "O", ":", " ", "d", "r", "o", "p", " ">> \o type_key \o <<" ">> \o schema \o <<".">>
                   \o name \o <<" ", "m", "a", "n", "u", "a", "l", "l", "y">> >>

\* A variant of DropLines that ignores include_drops.
DropLinesAlways(summary, include_drops) ==
    IF summary.modules.missing_in_right # <<>>
    THEN << <<"-", "-", " ", "D", "r", "o", "p", "p", "i", "n", "g", " ", "o", "b", "j", "e", "c", "t", "s", " ", "t", "h", "a", "t", " ", "e", "x", "i", "s", "t", " ", "o", "n", "l", "y", " ", "i", "n", " ", "t", "a", "r", "g", "e", "t">> >>
         \o Flatten([i \in 1..Len(summary.modules.missing_in_right) |->
                        DropLine(summary.modules.missing_in_right[i])])
         \o << <<"G", "O">> >>
    ELSE <<>>

\* drop_lines, lines 1389-1406
DropLines(summary, include_drops) ==
    IF include_drops /\ summary.modules.missing_in_right # <<>>
    THEN << <<"-", "-", " ", "D", "r", "o", "p", "p", "i", "n", "g", " ", "o", "b", "j", "e", "c", "t", "s", " ", "t", "h", "a", "t", " ", "e", "x", "i", "s", "t", " ", "o", "n", "l", "y", " ", "i", "n", " ", "t", "a", "r", "g", "e", "t">> >>
         \o Flatten([i \in 1..Len(summary.modules.missing_in_right) |->
                        DropLine(summary.modules.missing_in_right[i])])
         \o << <<"G", "O">> >>
    ELSE <<>>

\* The lines pushed for one key of tables.changed, lines 1417-1424.
ChangedTableLines(key, source, target) ==
    LET right_sig == GetOption(TableSigMap(source), key)
        left_sig == GetOption(TableSigMap(target), key)
    IN  << RenderTableAlter(key, left_sig, right_sig) >>
        \o RenderAddColumns(key,
               GetOrEmpty(ColumnsByTable(source.table_columns), key),
               GetOrEmpty(ColumnsByTable(target.table_columns), key))

\* The lines pushed for one key of tables.missing_in_left, lines 1427-1440.
MissingInLeftTableLines(key, source) ==
    LET src_cols == ColumnsByTable(source.table_columns)
        schema == SplitOnce(key)[1]
        table == SplitOnce(key)[2]
    IN  << <<"-", "-", " ", "T", "a", "b", "l", "e", " ">> \o key
               \o <<" ", "e", "x", "i", "s", "t", "s", " ", "o", "n", "l", "y", " ", "i", "n", " ", "s", "o", "u", "r", "c", "e", ".", " ", "C", "o", "n", "s", "i", "d", "e", "r", " ", "c", "r", "e", "a", "t", "i", "n", "g", " ", "i", "t", " ", "l", "o", "c", "a", "l", "l", "y", ".">> >>
        \o (IF key \in DOMAIN src_cols
            THEN << <<"C", "R", "E", "A", "T", "E", " ", "T", "A", "B", "L", "E", " ", "[">> \o schema \o <<"]", ".", "[">> \o table \o <<"]", " ", "(", "LF", " ", " ">>
                       \o Join(ColumnDefinitions(src_cols[key]), <<",", "LF", " ", " ">>)
                       \o <<"LF", ")", ";", "LF", "G", "O", "LF">> >>
            ELSE <<>>)

\* table_lines, lines 1408-1447
TableLines(summary, source, target) ==
    IF \/ summary.tables.changed # <<>>
       \/ summary.tables.missing_in_left # <<>>
       \/ summary.tables.missing_in_right # <<>>
    THEN << <<"-", "-", " ", "T", "a", "b", "l", "e", " ", "d", "r", "i", "f", "t", " ", "d", "e", "t", "e", "c", "t", "e", "d", ";", " ", "n", "o", "n", "-", "d", "e", "s", "t", "r", "u", "c", "t", "i", "v", "e", " ", "a", "d", "d", "i", "t", "i", "o", "n", "s", " ", "a", "r", "e", " ", "a", "p", "p", "l", "i", "e", "d", " ", "a", "u", "t", "o", "m", "a", "t", "i", "c", "a", "l", "l", "y", ";", " ", "o", "t", "h", "e", "r", " ", "c", "h", "a", "n", "g", "e", "s", " ", "r", "e", "m", "a", "i", "n", " ", "c", "o", "m", "m", "e", "n", "t", "e", "d", ".">> >>
         \o Flatten([i \in 1..Len(summary.tables.changed) |->
                        ChangedTableLines(summary.tables.changed[i], source, target)])
         \o Flatten([i \in 1..Len(summary.tables.missing_in_left) |->
                        MissingInLeftTableLines(summary.tables.missing_in_left[i], source)])
         \o [i \in 1..Len(summary.tables.missing_in_right) |->
                <<"-", "-", " ", "T", "a", "b", "l", "e", " ">> \o summary.tables.missing_in_right[i]
                \o <<" ", "e", "x", "i", "s", "t", "s", " ", "o", "n", "l", "y", " ", "i", "n", " ", "t", "a", "r", "g", "e", "t", ".", " ", "D", "e", "c", "i", "d", "e", " ", "w", "h", "e", "t", "h", "e", "r", " ", "t", "o", " ", "d", "r", "o", "p", " ", "o", "r", " ", "k", "e", "e", "p", ".">>]
    ELSE <<>>

\* A variant of Placeholder that is the empty line.
PlaceholderEmpty == <<>>

Placeholder == <<"-", "-", " ", "N", "o", " ", "d", "r", "i", "f", "t", " ", "d", "e", "t", "e", "c", "t", "e", "d", ";", " ", "n", "o", "t", "h", "i", "n", "g", " ", "t", "o", " ", "a", "p", "p", "l", "y">>

\* A variant of ScriptLines that puts the modules first.
ScriptLinesModulesFirst(table_lines, drop_lines, module_lines) ==
    LET lines == module_lines \o drop_lines \o table_lines
    IN  IF lines = <<>> THEN <<Placeholder>> ELSE lines

\* lines, lines 1449-1461
ScriptLines(table_lines, drop_lines, module_lines) ==
    LET lines == table_lines \o drop_lines \o module_lines
    IN  IF lines = <<>> THEN <<Placeholder>> ELSE lines

\* render_apply_script(summary, source, target, include_drops)
RenderApplyScript(summary, source, target, include_drops) ==
    Join(ScriptLines(TableLines(summary, source, target),
                     DropLines(summary, include_drops),
                     ModuleLines(summary, source)),
         <<"LF">>)

\* ---------------------------------------------------------------------------
\* render_apply_script on bounded snapshots
\* ---------------------------------------------------------------------------

RenderModules ==
    [foo1 |-> ModuleRow(<<"d", "b", "o">>, <<"F", "o", "o">>, <<"P">>, <<"C", "R", "E", "A", "T", "E", " ", "P", "R", "O", "C", " ", "F", "o", "o", " ", "A", "S", " ", "S", "E", "L", "E", "C", "T", " ", "1">>),
     foo2 |-> ModuleRow(<<"d", "b", "o">>, <<"F", "o", "o">>, <<"P">>, <<"c", "r", "e", "a", "t", "e", " ", "p", "r", "o", "c", "e", "d", "u", "r", "e", " ", "F", "o", "o", " ", "a", "s", " ", "s", "e", "l", "e", "c", "t", " ", "2">>),
     v1 |-> ModuleRow(<<"d", "b", "o">>, <<"V", "1">>, <<"V">>, <<" ", "C", "R", "E", "A", "T", "E", " ", "V", "I", "E", "W", " ", "V", "1", " ", "A", "S", " ", "S", "E", "L", "E", "C", "T", " ", "1", "LF">>),
     fn |-> ModuleRow(<<"w", "e", "b">>, <<"F", "n">>, <<"F", "N">>, <<"C", "R", "E", "A", "T", "E", " ", "O", "R", " ", "A", "L", "T", "E", "R", " ", "F", "U", "N", "C", "T", "I", "O", "N", " ", "F", "n", "(", ")", " ", "R", "E", "T", "U", "R", "N", "S", " ", "i", "n", "t", " ", "A", "S", " ", "B", "E", "G", "I", "N", " ", "R", "E", "T", "U", "R", "N", " ", "1", " ", "E", "N", "D">>),
     trg |-> ModuleRow(<<"d", "b", "o">>, <<"T", "r", "g">>, <<"T", "R">>, <<"C", "R", "E", "A", "T", "E", " ", "T", "R", "I", "G", "G", "E", "R", " ", "T", "r", "g", " ", "O", "N", " ", "U", "s", "e", "r", "s", " ", "A", "F", "T", "E", "R", " ", "I", "N", "S", "E", "R", "T", " ", "A", "S", " ", "R", "E", "T", "U", "R", "N">>)]

\* The module lists a snapshot may hold.
RenderModuleLists ==
    {<<>>, <<RenderModules.foo1>>, <<RenderModules.foo2, RenderModules.v1>>,
     <<RenderModules.fn, RenderModules.trg>>}

UserColumns ==
    [id |-> TableColumnRow(<<"d", "b", "o">>, <<"U", "s", "e", "r", "s">>, 1, <<"I", "d">>, <<"i", "n", "t">>, 4, 10, 0,
                           FALSE, TRUE, <<>>, <<>>),
     name |-> TableColumnRow(<<"d", "b", "o">>, <<"U", "s", "e", "r", "s">>, 2, <<"N", "a", "m", "e">>, <<"n", "v", "a", "r", "c", "h", "a", "r">>, 200, 0, 0,
                             TRUE, FALSE, <<>>, <<>>),
     note |-> TableColumnRow(<<"d", "b", "o">>, <<"U", "s", "e", "r", "s">>, 3, <<"N", "o", "t", "e">>, <<"v", "a", "r", "c", "h", "a", "r">>, -1, 0, 0,
                             TRUE, FALSE, <<"(", "'", "'", ")">>, <<>>),
     idLower |-> TableColumnRow(<<"d", "b", "o">>, <<"U", "s", "e", "r", "s">>, 1, <<"i", "d">>, <<"b", "i", "g", "i", "n", "t">>, 8, 19, 0,
                                FALSE, FALSE, <<>>, <<>>),
     nameUpper |-> TableColumnRow(<<"d", "b", "o">>, <<"U", "s", "e", "r", "s">>, 2, <<"N", "A", "M", "E">>, <<"n", "v", "a", "r", "c", "h", "a", "r">>, 100, 0, 0,
                                  FALSE, FALSE, <<"(", "N", "'", "x", "'", ")">>, <<>>),
     extra |-> TableColumnRow(<<"d", "b", "o">>, <<"U", "s", "e", "r", "s">>, 4, <<"E", "x", "t", "r", "a">>, <<"d", "a", "t", "e", "t", "i", "m", "e", "2">>, 8, 27, 7,
                              TRUE, FALSE, <<>>, <<>>)]

LogColumns ==
    [total |-> TableColumnRow(<<"d", "b", "o">>, <<"L", "o", "g", "s">>, 2, <<"T", "o", "t", "a", "l">>, <<"d", "e", "c", "i", "m", "a", "l">>, 9, 18, 2,
                              TRUE, FALSE, <<>>, <<"(", "[", "A", "m", "o", "u", "n", "t", "]", "*", "(", "2", ")", ")">>),
     amount |-> TableColumnRow(<<"d", "b", "o">>, <<"L", "o", "g", "s">>, 1, <<"A", "m", "o", "u", "n", "t">>, <<"D", "e", "c", "i", "m", "a", "l">>, 9, 18, 2,
                               FALSE, FALSE, <<>>, <<>>)]

\* What a snapshot may hold of tables: the TableRow list together with the
\* column rows of the same tables, in the order the server returned them.
RenderTableSets ==
    { [tables |-> <<>>, table_columns |-> <<>>],
      [tables |-> <<TableRow(<<"d", "b", "o">>, <<"U", "s", "e", "r", "s">>, <<"1", ":", "I", "d", ":", "i", "n", "t", ",", "2", ":", "N", "a", "m", "e", ":", "n", "v", "a", "r", "c", "h", "a", "r", ",", "3", ":", "N", "o", "t", "e", ":", "v", "a", "r", "c", "h", "a", "r">>, <<"i", "x", "_", "n", "a", "m", "e">>, <<>>)>>,
       table_columns |-> <<UserColumns.id, UserColumns.name, UserColumns.note>>],
      [tables |-> <<TableRow(<<"d", "b", "o">>, <<"U", "s", "e", "r", "s">>, <<"1", ":", "i", "d", ":", "b", "i", "g", "i", "n", "t", ",", "2", ":", "N", "A", "M", "E", ":", "n", "v", "a", "r", "c", "h", "a", "r">>, <<"i", "x", "_", "n", "a", "m", "e">>, <<"(", "[", "i", "d", "]", ">", "(", "0", ")", ")">>)>>,
       table_columns |-> <<UserColumns.idLower, UserColumns.nameUpper>>],
      [tables |-> <<TableRow(<<"d", "b", "o">>, <<"L", "o", "g", "s">>, <<"1", ":", "A", "m", "o", "u", "n", "t", ":", "d", "e", "c", "i", "m", "a", "l", ",", "2", ":", "T", "o", "t", "a", "l", ":", "d", "e", "c", "i", "m", "a", "l">>, <<>>, <<>>),
                    TableRow(<<"d", "b", "o">>, <<"U", "s", "e", "r", "s">>, <<"1", ":", "I", "d", ":", "i", "n", "t", ",", "2", ":", "N", "a", "m", "e", ":", "n", "v", "a", "r", "c", "h", "a", "r", ",", "4", ":", "E", "x", "t", "r", "a", ":", "d", "a", "t", "e", "t", "i", "m", "e", "2">>, <<>>, <<>>)>>,
       table_columns |-> <<LogColumns.total, UserColumns.extra, LogColumns.amount,
                           UserColumns.name, UserColumns.id>>],
      [tables |-> <<TableRow(<<"d", "b", "o">>, <<"U", "s", "e", "r", "s">>, <<"1", ":", "i", "d", ":", "b", "i", "g", "i", "n", "t", ",", "2", ":", "N", "A", "M", "E", ":", "n", "v", "a", "r", "c", "h", "a", "r">>, <<"i", "x", "_", "n", "a", "m", "e">>, <<"(", "[", "i", "d", "]", ">", "(", "0", ")", ")">>),
                    TableRow(<<"d", "b", "o">>, <<"U", "s", "e", "r", "s">>, <<"1", ":", "I", "d", ":", "i", "n", "t", ",", "2", ":", "N", "a", "m", "e", ":", "n", "v", "a", "r", "c", "h", "a", "r", ",", "3", ":", "N", "o", "t", "e", ":", "v", "a", "r", "c", "h", "a", "r">>, <<"i", "x", "_", "o", "t", "h", "e", "r">>, <<>>)>>,
       table_columns |-> <<UserColumns.id, UserColumns.name, UserColumns.note>>],
      [tables |-> <<TableRow(<<"d", "b", "o">>, <<"L", "o", "g", "s">>, <<"1", ":", "A", "m", "o", "u", "n", "t", ":", "d", "e", "c", "i", "m", "a", "l", ",", "2", ":", "T", "o", "t", "a", "l", ":", "d", "e", "c", "i", "m", "a", "l">>, <<>>, <<>>)>>,
       table_columns |-> <<LogColumns.amount, LogColumns.total>>] }

RenderSnapshots(name) ==
    { [name |-> name, modules |-> ms, indexes |-> <<>>, constraints |-> <<>>,
       tables |-> ts.tables, table_columns |-> ts.table_columns] :
        ms \in RenderModuleLists, ts \in RenderTableSets }

DiffOf(changed, missing_in_right, missing_in_left) ==
    [changed |-> changed, missing_in_right |-> missing_in_right,
     missing_in_left |-> missing_in_left]

\* A summary whose keys come from elsewhere: some name objects of the
\* snapshots in lists the snapshots do not justify, some name nothing, some
\* do not have the form of a key.
ForeignSummary ==
    [modules |-> DiffOf(<<<<"d", "b", "o", ".", "P", ".", "N", "o", "p", "e">>, <<"d", "b", "o", ".", "V", ".", "V", "1">>>>,
                        <<<<"a", ".", "b">>, <<"d", "b", "o", ".", "T", "R", ".", "G", "o", "n", "e">>, <<"d", "b", "o", ".", "X", ".", "O", "d", "d">>, <<"s", ".", "V", ".", "a", ".", "b">>, <<"w", "e", "b", ".", "I", "F", ".", "f">>>>,
                        <<<<"d", "b", "o", ".", "P", ".", "F", "o", "o">>, <<"x">>>>),
     indexes |-> EmptyDiff,
     constraints |-> EmptyDiff,
     tables |-> DiffOf(<<<<"d", "b", "o", ".", "U", "s", "e", "r", "s">>, <<"n", "o", "d", "o", "t">>>>, <<<<"d", "b", "o", ".", "G", "o", "n", "e">>>>,
                       <<<<"d", "b", "o", ".", "G", "h", "o", "s", "t">>, <<"d", "b", "o", ".", "L", "o", "g", "s">>>>)]

SummaryOrigins == {"summarize", "reversed", "foreign"}

InitRender ==
    /\ aSource \in RenderSnapshots(<<"s", "r", "c">>)
    /\ aTarget \in RenderSnapshots(<<"t", "g", "t">>)
    /\ aIncludeDrops \in BOOLEAN
    /\ aOrigin \in SummaryOrigins
    /\ aSummary = EmptySummary
    /\ aTableLines = <<>>
    /\ aDropLines = <<>>
    /\ aModuleLines = <<>>
    /\ aScript = <<>>
    /\ aPc = "summarize"
    /\ DiffIdle
    /\ SummaryIdle
    /\ RunIdle
    /\ TextIdle

\* The summary handed to render_apply_script: the one run builds at line 143
\* from the same two snapshots, the one of the two snapshots exchanged, or a
\* summary from elsewhere.
RenderSummarize ==
    /\ aPc = "summarize"
    /\ IF aOrigin = "foreign"
       THEN aSummary' = ForeignSummary
       ELSE \E iw \in BOOLEAN, sc \in BOOLEAN :
                LET sm == SnapshotMaps(aSource, iw, sc)
                    tm == SnapshotMaps(aTarget, iw, sc)
                IN  \E h \in Seeds :
                        aSummary' = IF aOrigin = "summarize"
                                    THEN DiffAll(sm, tm, h, MaxSeed - h)
                                    ELSE DiffAll(tm, sm, h, MaxSeed - h)
    /\ aPc' = "render"
    /\ UNCHANGED <<aSource, aTarget, aOrigin, aIncludeDrops, aTableLines,
                   aDropLines, aModuleLines, aScript>>
    /\ UNCHANGED <<diffVars, summaryVars, runVars, textVars>>

RenderCall ==
    /\ aPc = "render"
    /\ aTableLines' = TableLines(aSummary, aSource, aTarget)
    /\ aDropLines' = DropLines(aSummary, aIncludeDrops)
    /\ aModuleLines' = ModuleLines(aSummary, aSource)
    /\ aScript' = RenderApplyScript(aSummary, aSource, aTarget, aIncludeDrops)
    /\ aPc' = "rendered"
    /\ UNCHANGED <<aSource, aTarget, aOrigin, aSummary, aIncludeDrops>>
    /\ UNCHANGED <<diffVars, summaryVars, runVars, textVars>>

NextRender == RenderSummarize \/ RenderCall

SpecRender == InitRender /\ [][NextRender]_vars

\* ---------------------------------------------------------------------------
\* Claims about render_apply_script
\* ---------------------------------------------------------------------------

StartsWith(s, p) == Len(p) <= Len(s) /\ SubSeq(s, 1, Len(p)) = p

EndsWith(s, p) == Len(p) <= Len(s) /\ SubSeq(s, Len(s) - Len(p) + 1, Len(s)) = p

RECURSIVE SplitLines(_)
\* The lines of a text: the pieces between its line feeds.
SplitLines(s) ==
    IF \E i \in 1..Len(s) : s[i] = "LF"
    THEN LET i == LineEnd(s, 1)
         IN  <<SubSeq(s, 1, i - 1)>> \o SplitLines(SubSeq(s, i + 1, Len(s)))
    ELSE <<s>>

\* The place of a script line in the emission order, read off its text; 0 for
\* the lines that carry no mark of their section (GO, empty lines, the lines
\* of a module body).
LineRank(line) ==
    IF StartsWith(line, <<"-", "-", " ", "T", "a", "b", "l", "e", " ", "d", "r", "i", "f", "t", " ", "d", "e", "t", "e", "c", "t", "e", "d", ";">>) THEN 1
    ELSE IF \/ StartsWith(line, <<"-", "-", " ", "T", "O", "D", "O", ":", " ", "T", "a", "b", "l", "e", " ", "d", "r", "i", "f", "t", " ", "d", "e", "t", "e", "c", "t", "e", "d", " ", "f", "o", "r", " ">>)
            \/ StartsWith(line, <<"-", "-", " ", " ", " ", "C", "o", "l", "u", "m", "n", "s", " ", "d", "i", "f", "f", "e", "r">>)
            \/ StartsWith(line, <<"-", "-", " ", " ", " ", "N", "o", "n", "-", "P", "K", "/", "u", "n", "i", "q", "u", "e", " ", "i", "n", "d", "e", "x", "e", "s", " ", "d", "i", "f", "f", "e", "r">>)
            \/ StartsWith(line, <<"-", "-", " ", " ", " ", "C", "H", "E", "C", "K", " ", "c", "o", "n", "s", "t", "r", "a", "i", "n", "t", "s", " ", "d", "i", "f", "f", "e", "r">>)
            \/ StartsWith(line, <<"-", "-", " ", "A", "d", "d", "i", "n", "g", " ">>)
            \/ StartsWith(line, <<"A", "L", "T", "E", "R", " ", "T", "A", "B", "L", "E", " ", "[">>)
            \/ StartsWith(line, <<" ", " ", "A", "D", "D", " ">>)
            \/ StartsWith(line, <<" ", " ", " ", " ", " ", " ", "[">>) THEN 2
    ELSE IF \/ StartsWith(line, <<"-", "-", " ", "T", "a", "b", "l", "e", " ">>) /\ EndsWith(line, <<" ", "e", "x", "i", "s", "t", "s", " ", "o", "n", "l", "y", " ", "i", "n", " ", "s", "o", "u", "r", "c", "e", ".", " ", "C", "o", "n", "s", "i", "d", "e", "r", " ", "c", "r", "e", "a", "t", "i", "n", "g", " ", "i", "t", " ", "l", "o", "c", "a", "l", "l", "y", ".">>)
            \/ StartsWith(line, <<"C", "R", "E", "A", "T", "E", " ", "T", "A", "B", "L", "E", " ", "[">>)
            \/ StartsWith(line, <<" ", " ", "[">>)
            \/ line = <<")", ";">> THEN 3
    ELSE IF StartsWith(line, <<"-", "-", " ", "T", "a", "b", "l", "e", " ">>) /\ EndsWith(line, <<" ", "e", "x", "i", "s", "t", "s", " ", "o", "n", "l", "y", " ", "i", "n", " ", "t", "a", "r", "g", "e", "t", ".", " ", "D", "e", "c", "i", "d", "e", " ", "w", "h", "e", "t", "h", "e", "r", " ", "t", "o", " ", "d", "r", "o", "p", " ", "o", "r", " ", "k", "e", "e", "p", ".">>) THEN 4
    ELSE IF \/ StartsWith(line, <<"-", "-", " ", "D", "r", "o", "p", "p", "i", "n", "g", " ", "o", "b", "j", "e", "c", "t", "s">>)
            \/ StartsWith(line, <<"D", "R", "O", "P", " ">>)
            \/ StartsWith(line, <<"-", "-", " ", "T", "O", "D", "O", ":", " ", "d", "r", "o", "p", " ">>) THEN 5
    ELSE IF StartsWith(line, <<"-", "-", " ", "A", "L", "T", "E", "R", ":", " ">>) THEN 6
    ELSE IF StartsWith(line, <<"-", "-", " ", "C", "R", "E", "A", "T", "E", ":", " ">>) THEN 7
    ELSE 0

ScriptRanks == LET ls == SplitLines(aScript) IN [i \in 1..Len(ls) |-> LineRank(ls[i])]

\* C11: in the returned text the lines of the tables section (header, changed
\* tables, missing_in_left tables, missing_in_right tables, in that order)
\* come before the lines of the drops section, which come before the lines of
\* the modules section (changed modules, then missing_in_left modules), for
\* every summary and both values of include_drops.
C11_EmissionOrder ==
    aPc = "rendered" =>
        LET r == ScriptRanks
        IN  \A i \in 1..Len(r), j \in 1..Len(r) :
                (i < j /\ r[i] # 0 /\ r[j] # 0) => r[i] <= r[j]

\* A script that holds every kind of line.
C11_Witness ==
    /\ aPc = "rendered"
    /\ \A k \in 1..7 : \E i \in 1..Len(ScriptRanks) : ScriptRanks[i] = k

\* C12: render_apply_script returns a text for every summary, also one whose
\* keys are in neither snapshot, and that text is never empty; for a summary
\* without drift it is exactly the placeholder line.
C12_NeverEmpty ==
    aPc = "rendered" =>
        /\ aScript # <<>>
        /\ ~AnyListNonEmpty(aSummary) =>
               aScript = <<"-", "-", " ", "N", "o", " ", "d", "r", "i", "f", "t", " ", "d", "e", "t", "e", "c", "t", "e", "d", ";", " ", "n", "o", "t", "h", "i", "n", "g", " ", "t", "o", " ", "a", "p", "p", "l", "y">>

\* Two snapshots with the same modules and tables gave the placeholder.
C12_Witness ==
    /\ aPc = "rendered"
    /\ aOrigin = "summarize"
    /\ aSource.modules # <<>>
    /\ aSource.tables # <<>>
    /\ ~AnyListNonEmpty(aSummary)
    /\ aScript = Placeholder

\* Whether the text p occurs somewhere in the text s.
Contains(s, p) ==
    \E i \in 0..(Len(s) - Len(p)) : SubSeq(s, i + 1, i + Len(p)) = p

\* The lines of the tables section of the last rendering.
TableSectionLines == SplitLines(Join(aTableLines, <<"LF">>))

IsCommentLine(line) == StartsWith(line, <<"-", "-">>)

\* C13: every line of the tables section is a comment, empty, GO, or part of
\* an ALTER TABLE ... ADD or a CREATE TABLE statement; an ALTER TABLE line is
\* always followed by its ADD clause, and no executable line holds DROP
\* COLUMN, ALTER COLUMN or DROP TABLE, whatever the target table has in
\* excess of or in difference from the source table.
C13_TablesNonDestructive ==
    aPc = "rendered" =>
        LET ls == TableSectionLines
        IN  \A i \in 1..Len(ls) :
                \/ IsCommentLine(ls[i])
                \/ ls[i] = <<>>
                \/ ls[i] = <<"G", "O">>
                \/ /\ \/ /\ StartsWith(ls[i], <<"A", "L", "T", "E", "R", " ", "T", "A", "B", "L", "E", " ", "[">>)
                         /\ i < Len(ls)
                         /\ StartsWith(ls[i + 1], <<" ", " ", "A", "D", "D", " ">>)
                      \/ StartsWith(ls[i], <<" ", " ", "A", "D", "D", " ">>)
                      \/ StartsWith(ls[i], <<" ", " ", " ", " ", " ", " ", "[">>)
                      \/ StartsWith(ls[i], <<"C", "R", "E", "A", "T", "E", " ", "T", "A", "B", "L", "E", " ", "[">>)
                      \/ StartsWith(ls[i], <<" ", " ", "[">>)
                      \/ ls[i] = <<")", ";">>
                   /\ ~Contains(ls[i], <<"D", "R", "O", "P", " ", "C", "O", "L", "U", "M", "N">>)
                   /\ ~Contains(ls[i], <<"A", "L", "T", "E", "R", " ", "C", "O", "L", "U", "M", "N">>)
                   /\ ~Contains(ls[i], <<"D", "R", "O", "P", " ", "T", "A", "B", "L", "E">>)

\* The lower-case column names a snapshot holds for a table key.
ColumnNamesOf(snapshot, key) ==
    {ToLowercase(snapshot.table_columns[i].column_name) :
        i \in {j \in 1..Len(snapshot.table_columns) :
                  TableKey(snapshot.table_columns[j]) = key}}

\* A changed table got an ADD although the target also has a column the source
\* lacks, and a table was created.
C13_Witness ==
    /\ aPc = "rendered"
    /\ aOrigin \in {"summarize", "reversed"}
    /\ \E i \in 1..Len(aSummary.tables.changed) :
          LET key == aSummary.tables.changed[i]
          IN  /\ ColumnNamesOf(aTarget, key) \ ColumnNamesOf(aSource, key) # {}
              /\ ColumnNamesOf(aSource, key) \ ColumnNamesOf(aTarget, key) # {}
    /\ \E i \in 1..Len(TableSectionLines) :
          StartsWith(TableSectionLines[i], <<" ", " ", "A", "D", "D", " ">>)
    /\ \E i \in 1..Len(TableSectionLines) :
          StartsWith(TableSectionLines[i], <<"-", "-", " ", "T", "a", "b", "l", "e", " ">>)

\* The column rows of a table key in a snapshot.
ColumnRowsOf(snapshot, key) ==
    {snapshot.table_columns[i] :
        i \in {j \in 1..Len(snapshot.table_columns) :
                  TableKey(snapshot.table_columns[j]) = key}}

\* The source columns of a table key that have no target column of the same
\* name, letter case ignored.
MissingColumns(key) ==
    {c \in ColumnRowsOf(aSource, key) :
        ToLowercase(c.column_name) \notin ColumnNamesOf(aTarget, key)}

\* The rows of a set in strictly ascending column_id order.
AscendingByColumnId(rows) ==
    CHOOSE q \in [1..Cardinality(rows) -> rows] :
        \A i \in 1..Cardinality(rows), j \in 1..Cardinality(rows) :
            i < j => q[i].column_id < q[j].column_id

\* The ALTER TABLE line and the ADD clause expected for a set of columns of
\* one table.
ExpectedAlter(rows) ==
    LET c == CHOOSE r \in rows : TRUE
    IN  <<"A", "L", "T", "E", "R", " ", "T", "A", "B", "L", "E", " ", "[">> \o c.schema_name \o <<"]", ".", "[">> \o c.table_name \o <<"]">>

ExpectedAdd(rows) ==
    <<" ", " ", "A", "D", "D", " ">> \o Join(ColumnDefinitions(AscendingByColumnId(rows)),
                        <<",", "LF", " ", " ", " ", " ", " ", " ">>)

\* The keys of tables.changed that have a missing column, in list order.
KeysToAlter ==
    SelectSeq(aSummary.tables.changed, LAMBDA key : MissingColumns(key) # {})

\* C14: the tables section holds one ALTER TABLE ... ADD per changed table
\* that has a source column without a case-insensitive match in the target,
\* and none for any other changed table; its ADD clause lists exactly those
\* columns, each once, in ascending column_id order.
C14_AddMissingColumns ==
    aPc = "rendered" =>
        LET alters == SelectSeq(aTableLines,
                          LAMBDA l : StartsWith(l, <<"A", "L", "T", "E", "R", " ", "T", "A", "B", "L", "E", " ", "[">>))
            adds == SelectSeq(aTableLines, LAMBDA l : StartsWith(l, <<" ", " ", "A", "D", "D", " ">>))
        IN  /\ alters = [i \in 1..Len(KeysToAlter) |->
                            ExpectedAlter(MissingColumns(KeysToAlter[i]))]
            /\ adds = [i \in 1..Len(KeysToAlter) |->
                          ExpectedAdd(MissingColumns(KeysToAlter[i]))]
            /\ \A i \in 1..Len(aTableLines) :
                   StartsWith(aTableLines[i], <<"A", "L", "T", "E", "R", " ", "T", "A", "B", "L", "E", " ", "[">>) =>
                       /\ i < Len(aTableLines)
                       /\ StartsWith(aTableLines[i + 1], <<" ", " ", "A", "D", "D", " ">>)

\* A changed table where one source column is missing in the target and
\* another is matched only when letter case is ignored.
C14_Witness ==
    /\ aPc = "rendered"
    /\ aOrigin = "summarize"
    /\ \E i \in 1..Len(aSummary.tables.changed) :
          LET key == aSummary.tables.changed[i]
              exact == {c.column_name : c \in ColumnRowsOf(aTarget, key)}
          IN  /\ MissingColumns(key) # {}
              /\ \E c \in ColumnRowsOf(aSource, key) :
                    /\ c \notin MissingColumns(key)
                    /\ c.column_name \notin exact
    /\ \E i \in 1..Len(aTableLines) : StartsWith(aTableLines[i], <<" ", " ", "A", "D", "D", " ", "[", "N", "o", "t", "e", "]", " ">>)

\* C15: when the summary is summarize(source, target), every table key of
\* tables.missing_in_left has a CREATE TABLE statement for that table in the
\* script, with the columns of the table in column_id order.
C15_MissingInLeftTablesCreated ==
    (aPc = "rendered" /\ aOrigin = "summarize") =>
        \A i \in 1..Len(aSummary.tables.missing_in_left) :
            LET key == aSummary.tables.missing_in_left[i]
                rows == ColumnRowsOf(aSource, key) \cup ColumnRowsOf(aTarget, key)
                c == CHOOSE r \in rows : TRUE
            IN  rows # {} =>
                    \E j \in 1..Len(aTableLines) :
                        aTableLines[j] =
                            <<"C", "R", "E", "A", "T", "E", " ", "T", "A", "B", "L", "E", " ", "[">> \o c.schema_name \o <<"]", ".", "[">>
                            \o c.table_name \o <<"]", " ", "(">> \o <<"LF", " ", " ">>
                            \o Join(ColumnDefinitions(AscendingByColumnId(rows)),
                                    <<",", "LF", " ", " ">>)
                            \o <<"LF", ")", ";", "LF", "G", "O", "LF">>

\* The elements of a list.
Elements(list) == {list[i] : i \in 1..Len(list)}

\* The schema.type.name keys of the modules of a snapshot.
ModuleKeysOf(snapshot) ==
    {snapshot.modules[i].schema_name \o <<".">> \o snapshot.modules[i].type
        \o <<".">> \o snapshot.modules[i].name : i \in 1..Len(snapshot.modules)}

ModuleRowsOf(key) ==
    {r \in Elements(aSource.modules) \cup Elements(aTarget.modules) :
        r.schema_name \o <<".">> \o r.type \o <<".">> \o r.name = key}

\* The number of module blocks of the last rendering that are headed for a
\* module row and hold CREATE OR ALTER with the keyword of its type.
BlocksFor(row) ==
    Cardinality({i \in 1..Len(aModuleLines) :
        /\ \/ aModuleLines[i] = <<"-", "-", " ", "A", "L", "T", "E", "R", ":", " ">> \o row.schema_name \o <<".">> \o row.name
                                   \o <<" ", "(">> \o TypeKeyword(row.type) \o <<")">>
           \/ aModuleLines[i] = <<"-", "-", " ", "C", "R", "E", "A", "T", "E", ":", " ">> \o row.schema_name \o <<".">> \o row.name
                                   \o <<" ", "(">> \o TypeKeyword(row.type) \o <<")">>
        /\ i < Len(aModuleLines)
        /\ Contains(aModuleLines[i + 1],
                    <<"C", "R", "E", "A", "T", "E", " ", "O", "R", " ", "A", "L", "T", "E", "R", " ">> \o TypeKeyword(row.type))})

\* C17: when the summary is summarize(source, target), every key of
\* modules.changed and of modules.missing_in_left has exactly one module
\* block with CREATE OR ALTER and the keyword of its type; and when the
\* source alone has procedure dbo.Foo defined as CREATE PROC Foo AS SELECT 1,
\* the script holds CREATE OR ALTER PROCEDURE Foo.
C17_ModuleBlocks ==
    (aPc = "rendered" /\ aOrigin = "summarize") =>
        /\ \A k \in Elements(aSummary.modules.changed)
                      \cup Elements(aSummary.modules.missing_in_left) :
               \A row \in ModuleRowsOf(k) : BlocksFor(row) = 1
        /\ (/\ RenderModules.foo1 \in Elements(aSource.modules)
            /\ ModuleRowsOf(<<"d", "b", "o", ".", "P", ".", "F", "o", "o">>) \cap Elements(aTarget.modules) = {})
               => Contains(aScript, <<"C", "R", "E", "A", "T", "E", " ", "O", "R", " ", "A", "L", "T", "E", "R", " ", "P", "R", "O", "C", "E", "D", "U", "R", "E", " ", "F", "o", "o">>)

\* The keys of modules.missing_in_right that have the schema.type.name form.
KeysToDrop ==
    SelectSeq(aSummary.modules.missing_in_right, LAMBDA k : Len(SplitDot(k)) >= 3)

\* Whether a line is the one expected in the drops section for a key.
IsDropLineFor(line, key) ==
    LET parts == SplitDot(key)
        code == parts[2]
        object == <<"[">> \o parts[1] \o <<"]", ".", "[">>
                  \o Join(SubSeq(parts, 3, Len(parts)), <<".">>) \o <<"]", ";">>
    IN  IF code = <<"P">>
        THEN line = <<"D", "R", "O", "P", " ", "P", "R", "O", "C", "E", "D", "U", "R", "E", " ", "I", "F", " ", "E", "X", "I", "S", "T", "S", " ">> \o object
        ELSE IF code \in {<<"F", "N">>, <<"I", "F">>, <<"T", "F">>}
        THEN line = <<"D", "R", "O", "P", " ", "F", "U", "N", "C", "T", "I", "O", "N", " ", "I", "F", " ", "E", "X", "I", "S", "T", "S", " ">> \o object
        ELSE IF code = <<"V">>
        THEN line = <<"D", "R", "O", "P", " ", "V", "I", "E", "W", " ", "I", "F", " ", "E", "X", "I", "S", "T", "S", " ">> \o object
        ELSE /\ StartsWith(line, <<"-", "-", " ", "T", "O", "D", "O", ":", " ", "d", "r", "o", "p", " ">>)
             /\ EndsWith(line, <<" ">> \o parts[1] \o <<".">>
                    \o Join(SubSeq(parts, 3, Len(parts)), <<".">>) \o <<" ", "m", "a", "n", "u", "a", "l", "l", "y">>)

\* C18: the drops section is there exactly when include_drops holds and
\* modules.missing_in_right is not empty; it then holds, between its header
\* and GO, one line per module key of that list, in list order: a DROP ...
\* IF EXISTS [schema].[name]; for a procedure, function or view and a
\* comment asking for a manual drop for any other type; and without
\* include_drops no line of the script starts a DROP statement.
C18_DropsSection ==
    aPc = "rendered" =>
        /\ (aDropLines # <<>>) <=>
               (aIncludeDrops /\ aSummary.modules.missing_in_right # <<>>)
        /\ aDropLines # <<>> =>
               /\ Len(aDropLines) = Len(KeysToDrop) + 2
               /\ aDropLines[1] = <<"-", "-", " ", "D", "r", "o", "p", "p", "i", "n", "g", " ", "o", "b", "j", "e", "c", "t", "s", " ", "t", "h", "a", "t", " ", "e", "x", "i", "s", "t", " ", "o", "n", "l", "y", " ", "i", "n", " ", "t", "a", "r", "g", "e", "t">>
               /\ aDropLines[Len(aDropLines)] = <<"G", "O">>
               /\ \A i \in 1..Len(KeysToDrop) :
                      IsDropLineFor(aDropLines[i + 1], KeysToDrop[i])
        /\ ~aIncludeDrops =>
               \A i \in 1..Len(SplitLines(aScript)) :
                   ~StartsWith(SplitLines(aScript)[i], <<"D", "R", "O", "P", " ">>)
        /\ \E i \in 1..Len(SplitLines(aScript)) :
               StartsWith(SplitLines(aScript)[i], <<"-", "-", " ", "D", "r", "o", "p", "p", "i", "n", "g", " ", "o", "b", "j", "e", "c", "t", "s">>)
           <=> aDropLines # <<>>

\* A drops section computed from two snapshots, with a DROP statement and a
\* comment for a trigger.
C18_Witness ==
    /\ aPc = "rendered"
    /\ aOrigin = "summarize"
    /\ aIncludeDrops
    /\ \E i \in 1..Len(aDropLines) : StartsWith(aDropLines[i], <<"D", "R", "O", "P", " ", "F", "U", "N", "C", "T", "I", "O", "N", " ", "I", "F", " ", "E", "X", "I", "S", "T", "S", " ", "[", "w", "e", "b", "]", ".", "[", "F", "n", "]", ";">>)
    /\ \E i \in 1..Len(aDropLines) : aDropLines[i] = <<"-", "-", " ", "T", "O", "D", "O", ":", " ", "d", "r", "o", "p", " ", "T", "R", "I", "G", "G", "E", "R", " ", "d", "b", "o", ".", "T", "r", "g", " ", "m", "a", "n", "u", "a", "l", "l", "y">>

\* ---------------------------------------------------------------------------
\* What normalize_definition leaves of comments
\* ---------------------------------------------------------------------------

\* Whether a text holds a block-comment span: an opening delimiter and,
\* after it, a closing one.
HasBlockComment(s) ==
    \E i \in 1..Len(s), j \in 1..Len(s) :
        /\ i + 2 <= j
        /\ j + 1 <= Len(s)
        /\ s[i] = "/" /\ s[i + 1] = "*"
        /\ s[j] = "*" /\ s[j + 1] = "/"

\* A text that differs from s only in a comment and in runs of whitespace:
\* every whitespace character doubled and a line comment set at the end.
WithNoise(s) ==
    Flatten([i \in 1..Len(s) |-> IF IsSpace(s[i]) THEN <<s[i], s[i]>> ELSE <<s[i]>>])
    \o <<" ", "-", "-", "c">>

\* C21: with strip_comments the text normalize_definition returns holds no
\* block-comment span and no "--"; with ignore_whitespace as well, a text and
\* the same text with other whitespace runs and one more comment normalize to
\* the same text.
C21_NoCommentLeft ==
    (fPc = "normalized" /\ fFlags.strip_comments) =>
        /\ ~HasBlockComment(fOnce)
        /\ ~Contains(fOnce, <<"-", "-">>)
        /\ fFlags.ignore_whitespace =>
               NormalizeDefinition(WithNoise(fIn), TRUE, TRUE) = fOnce

\* ---------------------------------------------------------------------------
\* Object-diff mode on its own: run at the point where both snapshots are
\* there, over module lists as the modules query returns them (ordered by
\* schema, name, type).
\* ---------------------------------------------------------------------------

ObjectModules ==
    [foo1 |-> ModulePool[1],
     foo2 |-> ModulePool[2],
     webFoo |-> ModulePool[3],
     fooView |-> ModuleRow(<<"d", "b", "o">>, <<"F", "o", "o">>, <<"V">>, <<"S", "E", "L", "E", "C", "T", " ", "1">>),
     bar |-> ModuleRow(<<"d", "b", "o">>, <<"B", "a", "r">>, <<"P">>, <<"S", "E", "L", "E", "C", "T", " ", "1">>)]

ObjectModuleLists ==
    {<<>>, <<ObjectModules.foo1>>, <<ObjectModules.foo2>>, <<ObjectModules.webFoo>>,
     <<ObjectModules.foo1, ObjectModules.webFoo>>, <<ObjectModules.fooView>>,
     <<ObjectModules.bar, ObjectModules.foo2>>}

ObjectNames == {<<"d", "b", "o", ".", "f", "o", "o">>, <<"F", "O", "O">>, <<"w", "e", "b", ".", "F", "o", "o">>}

InitObject ==
    /\ cmd \in [object : {<<o>> : o \in ObjectNames}, apply_script : BOOLEAN,
                summary : BOOLEAN, ignore_whitespace : BOOLEAN,
                strip_comments : BOOLEAN]
    /\ quiet \in BOOLEAN
    /\ pc = "dispatch"
    /\ tpc = [s \in Sides |-> "done"]
    /\ qi = [s \in Sides |-> Len(QueryOrder)]
    /\ sent = [s \in Sides |-> QueryOrder]
    /\ \E l \in ObjectModuleLists, r \in ObjectModuleLists :
           result = [s \in Sides |->
                        [EmptySnapshot EXCEPT !.name = ProfileName(s),
                                              !.modules = IF s = "source" THEN l ELSE r]]
    /\ rSummary = EmptySummary
    /\ diffed = FALSE
    /\ paths = <<>>
    /\ out = <<>>
    /\ errOut = <<>>
    /\ files = <<>>
    /\ faults = {}
    /\ rExit = -1
    /\ DiffIdle
    /\ SummaryIdle
    /\ OthersIdle

NextObject == ObjectDiff

SpecObject == InitObject /\ [][NextObject]_vars

\* The two lookups of the object-diff and what they compare.
LeftObj == PickFirstModule(result["source"], cmd.object[1])

RightObj == PickFirstModule(result["target"], cmd.object[1])

SameNormalized ==
    /\ LeftObj # <<>>
    /\ RightObj # <<>>
    /\ NormalizeDefinition(LeftObj[1].definition, cmd.ignore_whitespace,
                           cmd.strip_comments)
       = NormalizeDefinition(RightObj[1].definition, cmd.ignore_whitespace,
                             cmd.strip_comments)

\* The body printed for one side: the definition with CR LF as LF, empty for
\* a side that lacks the module.
PrintedBody(obj) == IF obj = <<>> THEN <<>> ELSE ReplaceCrLf(obj[1].definition)

OneSidedOutput ==
    (LeftObj = <<>>) # (RightObj = <<>>) =>
        out = <<[kind |-> "left_right",
                 body |-> <<PrintedBody(LeftObj), PrintedBody(RightObj)>>]>>

\* C22 as stated: exit code 4 iff the module is found on neither side; exit
\* code 0 together with the no-substantive-drift message iff it is found on
\* both sides with equal normalized definitions; exit code 3 otherwise, a
\* module found on one side only being printed with its body under its label
\* and an empty body for the other side.
C22_OutcomeWithMessage ==
    pc = "exited" =>
        /\ rExit = 4 <=> (LeftObj = <<>> /\ RightObj = <<>>)
        /\ (rExit = 0 /\ out = <<[kind |-> "no_substantive_drift", body |-> <<>>]>>)
               <=> SameNormalized
        /\ rExit = 3 <=> (~(LeftObj = <<>> /\ RightObj = <<>>) /\ ~SameNormalized)
        /\ OneSidedOutput

\* C22: exit code 4 iff the module is found on neither side; exit code 0 iff
\* it is found on both sides with equal normalized definitions, and then the
\* no-substantive-drift message is printed unless --quiet is given; exit code
\* 3 otherwise, a module found on one side only being printed with its body
\* under its label and an empty body for the other side.
C22_Outcome ==
    pc = "exited" =>
        /\ rExit \in {0, 3, 4}
        /\ rExit = 4 <=> (LeftObj = <<>> /\ RightObj = <<>>)
        /\ rExit = 0 <=> SameNormalized
        /\ rExit = 0 =>
               out = IF quiet THEN <<>>
                     ELSE <<[kind |-> "no_substantive_drift", body |-> <<>>]>>
        /\ OneSidedOutput

\* A module that only the source has was printed and the exit code is 3.
C22_Witness ==
    /\ pc = "exited"
    /\ LeftObj # <<>>
    /\ RightObj = <<>>
    /\ rExit = 3
    /\ out # <<>>
    /\ out[1].body = <<ReplaceCrLf(LeftObj[1].definition), <<>>>>
    /\ LeftObj[1].definition # ReplaceCrLf(LeftObj[1].definition)

\* C29: when the name resolves on both sides, the two modules that are
\* compared have the same schema and the same name, letter case ignored, and
\* the same type, for a qualified name and for a bare one.
C29_SameObjectCompared ==
    (pc = "exited" /\ LeftObj # <<>> /\ RightObj # <<>>) =>
        /\ ToLowercase(LeftObj[1].schema_name) = ToLowercase(RightObj[1].schema_name)
        /\ ToLowercase(LeftObj[1].name) = ToLowercase(RightObj[1].name)
        /\ LeftObj[1].type = RightObj[1].type

(***************************************************************************)
(* Connection-string overrides: parse_connection_string, parse_url_style,  *)
(* parse_ado_style, apply_connection_override.                             *)
(***************************************************************************)

\* The first index of character ch in s, or 0.
FindChar(s, ch) ==
    LET I == {i \in 1..Len(s) : s[i] = ch}
    IN  IF I = {} THEN 0 ELSE CHOOSE i \in I : \A j \in I : i <= j

\* The first index at which the text p starts in s, or 0.
FindText(s, p) ==
    LET I == {i \in 1..(Len(s) - Len(p) + 1) : SubSeq(s, i, i + Len(p) - 1) = p}
    IN  IF I = {} THEN 0 ELSE CHOOSE i \in I : \A j \in I : i <= j

RECURSIVE SplitOn(_, _)
\* str::split(ch): the pieces between the occurrences of ch, empty ones kept.
SplitOn(s, ch) ==
    LET i == FindChar(s, ch)
    IN  IF i = 0 THEN <<s>>
        ELSE <<SubSeq(s, 1, i - 1)>> \o SplitOn(SubSeq(s, i + 1, Len(s)), ch)

\* str::splitn(2, ch): one piece, or the pieces before and after the first ch.
SplitN2(s, ch) ==
    LET i == FindChar(s, ch)
    IN  IF i = 0 THEN <<s>>
        ELSE <<SubSeq(s, 1, i - 1), SubSeq(s, i + 1, Len(s))>>

\* config::parse_bool: Some(true), Some(false) or None, as a sequence of at
\* most one value.
ParseBool(input) ==
    LET v == ToLowercase(Trim(input))
    IN  IF v \in {<<"1">>, <<"t", "r", "u", "e">>, <<"y", "e", "s">>, <<"y">>, <<"o", "n">>} THEN <<TRUE>>
        ELSE IF v \in {<<"0">>, <<"f", "a", "l", "s", "e">>, <<"n", "o">>, <<"n">>, <<"o", "f", "f">>} THEN <<FALSE>>
        ELSE <<>>

DigitValue(c) ==
    CASE c = "0" -> 0 [] c = "1" -> 1 [] c = "2" -> 2 [] c = "3" -> 3
      [] c = "4" -> 4 [] c = "5" -> 5 [] c = "6" -> 6 [] c = "7" -> 7
      [] c = "8" -> 8 [] c = "9" -> 9

RECURSIVE DecimalValue(_)
DecimalValue(s) ==
    IF s = <<>> THEN 0
    ELSE DecimalValue(SubSeq(s, 1, Len(s) - 1)) * 10 + DigitValue(s[Len(s)])

\* str::parse::<u16>: an optional "+", then one or more decimal digits, the
\* value below 2^16; Ok(n) as <<n>>, Err as <<>>.
ParseU16(s) ==
    LET digits == IF s # <<>> /\ Head(s) = "+" THEN Tail(s) ELSE s
    IN  IF digits = <<>> \/ \E i \in 1..Len(digits) : digits[i] \notin Range(Digits)
        THEN <<>>
        ELSE IF DecimalValue(digits) >= 2 ^ 16 THEN <<>>
        ELSE <<DecimalValue(digits)>>

\* str::parse::<u64>, for the texts of at most nine digits that the inputs
\* hold (all of them below 2^64).
ParseU64(s) ==
    LET digits == IF s # <<>> /\ Head(s) = "+" THEN Tail(s) ELSE s
    IN  IF digits = <<>> \/ \E i \in 1..Len(digits) : digits[i] \notin Range(Digits)
        THEN <<>>
        ELSE <<DecimalValue(digits)>>

\* ConnectionSettings::default()
DefaultConnectionSettings ==
    [server |-> <<"l", "o", "c", "a", "l", "h", "o", "s", "t">>,
     port |-> 1433,
     database |-> <<"m", "a", "s", "t", "e", "r">>,
     user |-> <<>>,
     password |-> <<>>,
     encrypt |-> TRUE,
     trust_cert |-> TRUE,
     timeout_ms |-> 30000,
     default_schemas |-> <<<<"d", "b", "o">>>>]

\* One pass of the loop of parse_ado_style over a part of the text.
AdoPart(conn, part) ==
    LET trimmed == Trim(part)
        kv == SplitN2(trimmed, "=")
        key == ToLowercase(Trim(kv[1]))
        value == IF Len(kv) = 2 THEN Trim(kv[2]) ELSE <<>>
    IN  IF trimmed = <<>> THEN conn
        ELSE IF key \in {<<"s", "e", "r", "v", "e", "r">>, <<"d", "a", "t", "a", " ", "s", "o", "u", "r", "c", "e">>, <<"a", "d", "d", "r">>, <<"a", "d", "d", "r", "e", "s", "s">>,
                         <<"n", "e", "t", "w", "o", "r", "k", " ", "a", "d", "d", "r", "e", "s", "s">>}
        THEN IF FindChar(value, ",") # 0
             THEN LET host == SplitN2(value, ",")[1]
                      port == ParseU16(SplitN2(value, ",")[2])
                  IN  [conn EXCEPT !.server = host,
                                   !.port = IF port # <<>> THEN port[1] ELSE @]
             ELSE [conn EXCEPT !.server = value]
        ELSE IF key \in {<<"d", "a", "t", "a", "b", "a", "s", "e">>, <<"i", "n", "i", "t", "i", "a", "l", " ", "c", "a", "t", "a", "l", "o", "g">>}
        THEN [conn EXCEPT !.database = value]
        ELSE IF key \in {<<"u", "s", "e", "r", " ", "i", "d">>, <<"u", "i", "d">>, <<"u", "s", "e", "r">>}
        THEN [conn EXCEPT !.user = <<value>>]
        ELSE IF key \in {<<"p", "a", "s", "s", "w", "o", "r", "d">>, <<"p", "w", "d">>}
        THEN [conn EXCEPT !.password = <<value>>]
        ELSE IF key = <<"e", "n", "c", "r", "y", "p", "t">>
        THEN IF ParseBool(value) # <<>>
             THEN [conn EXCEPT !.encrypt = ParseBool(value)[1]] ELSE conn
        ELSE IF key \in {<<"t", "r", "u", "s", "t", "s", "e", "r", "v", "e", "r", "c", "e", "r", "t", "i", "f", "i", "c", "a", "t", "e">>, <<"t", "r", "u", "s", "t", " ", "s", "e", "r", "v", "e", "r", " ", "c", "e", "r", "t", "i", "f", "i", "c", "a", "t", "e">>}
        THEN IF ParseBool(value) # <<>>
             THEN [conn EXCEPT !.trust_cert = ParseBool(value)[1]] ELSE conn
        ELSE IF key \in {<<"c", "o", "n", "n", "e", "c", "t", "i", "o", "n", " ", "t", "i", "m", "e", "o", "u", "t">>, <<"c", "o", "n", "n", "e", "c", "t", " ", "t", "i", "m", "e", "o", "u", "t">>}
        THEN IF ParseU64(value) # <<>>
             THEN [conn EXCEPT !.timeout_ms = ParseU64(value)[1] * 1000]
             ELSE conn
        ELSE IF key \in {<<"t", "r", "u", "s", "t", "e", "d", "_", "c", "o", "n", "n", "e", "c", "t", "i", "o", "n">>, <<"i", "n", "t", "e", "g", "r", "a", "t", "e", "d", " ", "s", "e", "c", "u", "r", "i", "t", "y">>}
        THEN IF ParseBool(value) = <<TRUE>>
             THEN [conn EXCEPT !.user = <<>>, !.password = <<>>] ELSE conn
        ELSE conn

RECURSIVE AdoParts(_, _)
AdoParts(conn, parts) ==
    IF parts = <<>> THEN conn
    ELSE AdoParts(AdoPart(conn, Head(parts)), Tail(parts))

\* parse_ado_style(raw): always Ok(conn).
ParseAdoStyle(raw) ==
    [ok |-> TRUE, conn |-> AdoParts(DefaultConnectionSettings, SplitOn(raw, ";"))]

\* parse_url_style(raw): always Ok(conn).
ParseUrlStyle(raw) ==
    LET trimmed == Trim(raw)
        idx == FindText(trimmed, <<":", "/", "/">>)
        remaining == IF idx # 0 THEN SubSeq(trimmed, idx + 3, Len(trimmed)) ELSE trimmed
        at == FindChar(remaining, "@")
        auth_part == IF at # 0 THEN <<SubSeq(remaining, 1, at - 1)>> ELSE <<>>
        host_part == IF at # 0 THEN SubSeq(remaining, at + 1, Len(remaining))
                     ELSE remaining
        auth == IF auth_part # <<>> THEN SplitN2(auth_part[1], ":") ELSE <<>>
        slash == FindChar(host_part, "/")
        host_port == IF slash # 0 THEN SubSeq(host_part, 1, slash - 1) ELSE host_part
        db == IF slash # 0 THEN SubSeq(host_part, slash + 1, Len(host_part)) ELSE <<>>
        hp == SplitN2(host_port, ":")
        port == IF host_port # <<>> /\ Len(hp) = 2 THEN ParseU16(hp[2]) ELSE <<>>
        c0 == DefaultConnectionSettings
    IN  [ok |-> TRUE,
         conn |->
            [c0 EXCEPT
                !.user = IF auth # <<>> /\ auth[1] # <<>> THEN <<auth[1]>> ELSE @,
                !.password = IF Len(auth) = 2 /\ auth[2] # <<>> THEN <<auth[2]>> ELSE @,
                !.database = IF db # <<>> THEN db ELSE @,
                !.server = IF host_port # <<>> /\ hp[1] # <<>> THEN hp[1] ELSE @,
                !.port = IF port # <<>> THEN port[1] ELSE @]]

\* parse_connection_string(raw)
ParseConnectionString(raw) ==
    IF FindText(raw, <<":", "/", "/">>) # 0 THEN ParseUrlStyle(raw) ELSE ParseAdoStyle(raw)

\* ---------------------------------------------------------------------------
\* parse_ado_style on texts of up to MaxParts key=value parts
\* ---------------------------------------------------------------------------

MaxParts == 3

\* Parts that turn integrated security on.
TrustedParts == {<<"T", "r", "u", "s", "t", "e", "d", "_", "C", "o", "n", "n", "e", "c", "t", "i", "o", "n", "=", "y", "e", "s">>, <<" ", "i", "n", "t", "e", "g", "r", "a", "t", "e", "d", " ", "s", "e", "c", "u", "r", "i", "t", "y", " ", "=", " ", "T", "R", "U", "E", " ">>}

AdoPartPool ==
    TrustedParts \cup
    {<<"U", "s", "e", "r", " ", "I", "d", "=", "s", "a">>, <<"p", "w", "d", "=", "x">>, <<"T", "r", "u", "s", "t", "e", "d", "_", "C", "o", "n", "n", "e", "c", "t", "i", "o", "n", "=", "n", "o">>, <<"S", "e", "r", "v", "e", "r", "=", "h", ",", "1", "4", "3", "3">>, <<"x">>}

InitAdo ==
    /\ cfgIn \in UNION {[1..n -> AdoPartPool] : n \in 0..MaxParts}
    /\ cfgOut = <<>>
    /\ cfgPc = "parse_ado"
    /\ FunIdle
    /\ DiffIdle
    /\ SummaryIdle
    /\ RunIdle
    /\ RenderIdle

\* parse_ado_style on the parts joined by semicolons.
ParseAdoCall ==
    /\ cfgPc = "parse_ado"
    /\ cfgOut' = ParseAdoStyle(Join(cfgIn, <<";">>))
    /\ cfgPc' = "parsed"
    /\ UNCHANGED <<cfgIn, fIn, fType, fFlags, fOnce, fTwice, fPc>>
    /\ UNCHANGED <<diffVars, summaryVars, runVars, renderVars>>

NextAdo == ParseAdoCall

SpecAdo == InitAdo /\ [][NextAdo]_vars

\* C25: a text in which trusted_connection or integrated security has a true
\* value parses to settings without user and without password, whatever
\* other parts the text holds and in whatever order.
C25_TrustedClearsCredentials ==
    (cfgPc = "parsed" /\ \E i \in 1..Len(cfgIn) : cfgIn[i] \in TrustedParts) =>
        /\ cfgOut.conn.user = <<>>
        /\ cfgOut.conn.password = <<>>

\* ---------------------------------------------------------------------------
\* run, lines 112-136: the two resolved configurations, the connection
\* overrides, the schema scope, and the schemas handed to the two fetches.
\* load_from_system has succeeded; its results are inputs.
\* ---------------------------------------------------------------------------

DEFAULT_SCHEMAS == <<<<"d", "b", "o">>, <<"w", "e", "b">>, <<"r", "b", "a", "c">>, <<"n", "o", "t", "i", "f", "i", "c", "a", "t", "i", "o", "n">>>>

\* A ResolvedConfig as load_from_system returns it for a profile.
ProfileConfig(name, server, default_schemas) ==
    [profile_name |-> name,
     connection |-> [DefaultConnectionSettings EXCEPT
                        !.server = server, !.default_schemas = default_schemas]]

SourceProfiles ==
    {ProfileConfig(<<"s", "r", "c">>, <<"s", "r", "c", "-", "h", "o", "s", "t">>, ds) :
        ds \in {<<>>, <<<<"d", "b", "o">>>>, <<<<"s", "a", "l", "e", "s">>, <<"h", "r">>>>}}

TargetProfiles ==
    {ProfileConfig(<<"t", "g", "t">>, <<"t", "g", "t", "-", "h", "o", "s", "t">>, ds) : ds \in {<<>>, <<<<"o", "p", "s">>>>}}

\* cmd.schemas: None, or Some(list).
SchemasArgs == {<<>>, <<<<>>>>, <<<<<<" ">>, <<>>>>>>, <<<<<<" ", "a", "p", "p", " ">>, <<>>, <<"d", "b", "o">>>>>>}

\* Override texts that are well formed.
WellFormedOverrides ==
    {<<"S", "e", "r", "v", "e", "r", "=", "h", ",", "1", "4", "3", "3", ";", "D", "a", "t", "a", "b", "a", "s", "e", "=", "d", ";", "C", "o", "n", "n", "e", "c", "t", " ", "T", "i", "m", "e", "o", "u", "t", "=", "5">>, <<"m", "s", "s", "q", "l", ":", "/", "/", "u", ":", "p", "@", "h", ":", "1", "4", "3", "3", "/", "d">>}

\* Override texts that are malformed: no URL form and no recognised key, an
\* unparsable port, an unparsable timeout.
MalformedOverrides ==
    {<<"g", "a", "r", "b", "a", "g", "e">>, <<"S", "e", "r", "v", "e", "r", "=", "h", ",", "8", "0", "x">>, <<"S", "e", "r", "v", "e", "r", "=", "h", ";", "C", "o", "n", "n", "e", "c", "t", " ", "T", "i", "m", "e", "o", "u", "t", "=", "s", "o", "o", "n">>,
     <<"m", "s", "s", "q", "l", ":", "/", "/", "h", ":", "9", "9", "9", "9", "9", "/", "d">>}

\* cmd.source_connection / cmd.target_connection: None, or Some(text).
OverrideArgs == {<<>>} \cup {<<o>> : o \in WellFormedOverrides \cup MalformedOverrides}

TargetOverrideArgs == {<<>>, <<<<"g", "a", "r", "b", "a", "g", "e">>>>, <<<<"m", "s", "s", "q", "l", ":", "/", "/", "u", ":", "p", "@", "h", ":", "1", "4", "3", "3", "/", "d">>>>}

InitConfig ==
    /\ cfgIn \in [schemas : SchemasArgs,
                  profile : [source : SourceProfiles, target : TargetProfiles],
                  connection : [source : OverrideArgs, target : TargetOverrideArgs]]
    /\ cfgOut = [cfg |-> [s \in Sides |-> <<>>], schemas |-> <<>>,
                 fetch |-> [s \in Sides |-> <<>>]]
    /\ cfgPc = "source_cfg"
    /\ FunIdle
    /\ DiffIdle
    /\ SummaryIdle
    /\ RunIdle
    /\ RenderIdle

\* apply_connection_override(resolved, connection_override): Ok(config) as
\* <<config>>, Err as <<>>.
ApplyConnectionOverrideOf(resolved, connection_override) ==
    IF connection_override # <<>>
    THEN LET parsed == ParseConnectionString(connection_override[1])
         IN  IF parsed.ok
             THEN <<[resolved EXCEPT !.connection = parsed.conn]>>
             ELSE <<>>
    ELSE <<resolved>>

\* let source_cfg = apply_connection_override(...)?; and the same for target.
ApplyConnectionOverride(side) ==
    /\ cfgPc = (IF side = "source" THEN "source_cfg" ELSE "target_cfg")
    /\ LET r == ApplyConnectionOverrideOf(cfgIn.profile[side], cfgIn.connection[side])
       IN  IF r # <<>>
           THEN /\ cfgOut' = [cfgOut EXCEPT !.cfg[side] = r]
                /\ cfgPc' = IF side = "source" THEN "target_cfg" ELSE "schemas"
           ELSE /\ cfgPc' = "config_error"
                /\ UNCHANGED cfgOut
    /\ UNCHANGED <<cfgIn, fIn, fType, fFlags, fOnce, fTwice, fPc>>
    /\ UNCHANGED <<diffVars, summaryVars, runVars, renderVars>>

\* resolve_schemas(cmd, source, target)
ResolveSchemasOf(schemas_arg, source, target) ==
    LET schemas == IF schemas_arg # <<>>
                   THEN SelectSeq([i \in 1..Len(schemas_arg[1]) |-> Trim(schemas_arg[1][i])],
                                  LAMBDA s : s # <<>>)
                   ELSE <<>>
    IN  IF schemas # <<>> THEN schemas
        ELSE IF source.connection.default_schemas # <<>>
        THEN source.connection.default_schemas
        ELSE IF target.connection.default_schemas # <<>>
        THEN target.connection.default_schemas
        ELSE DEFAULT_SCHEMAS

\* let schemas = resolve_schemas(cmd, &source_cfg, &target_cfg);
ResolveSchemas ==
    /\ cfgPc = "schemas"
    /\ cfgOut' = [cfgOut EXCEPT !.schemas =
                     <<ResolveSchemasOf(cfgIn.schemas, cfgOut.cfg["source"][1],
                                        cfgOut.cfg["target"][1])>>]
    /\ cfgPc' = "fetch"
    /\ UNCHANGED <<cfgIn, fIn, fType, fFlags, fOnce, fTwice, fPc>>
    /\ UNCHANGED <<diffVars, summaryVars, runVars, renderVars>>

\* try_join!(fetch_snapshot(.., &schemas), fetch_snapshot(.., &schemas)): the
\* arguments of the two fetches.
StartFetch ==
    /\ cfgPc = "fetch"
    /\ cfgOut' = [cfgOut EXCEPT !.fetch =
                     [s \in Sides |->
                         <<[profile_name |-> cfgOut.cfg[s][1].profile_name,
                            connection |-> cfgOut.cfg[s][1].connection,
                            schemas |-> cfgOut.schemas[1]]>>]]
    /\ cfgPc' = "fetching"
    /\ UNCHANGED <<cfgIn, fIn, fType, fFlags, fOnce, fTwice, fPc>>
    /\ UNCHANGED <<diffVars, summaryVars, runVars, renderVars>>

NextConfig ==
    \/ \E side \in Sides : ApplyConnectionOverride(side)
    \/ ResolveSchemas
    \/ StartFetch

SpecConfig == InitConfig /\ [][NextConfig]_vars

\* The entries of --schemas, trimmed, the empty ones dropped.
CleanedSchemasArg ==
    IF cfgIn.schemas = <<>> THEN <<>>
    ELSE SelectSeq([i \in 1..Len(cfgIn.schemas[1]) |-> Trim(cfgIn.schemas[1][i])],
                   LAMBDA s : Len(s) > 0)

\* C23: the schema scope is the cleaned --schemas list if it is not empty,
\* else the default schemas of the source profile if not empty, else those
\* of the target profile if not empty, else the built-in list; and both
\* fetches get that list.
C23_SchemaPrecedence ==
    cfgPc = "fetching" =>
        LET src == cfgIn.profile["source"].connection.default_schemas
            tgt == cfgIn.profile["target"].connection.default_schemas
            expected == IF CleanedSchemasArg # <<>> THEN CleanedSchemasArg
                        ELSE IF src # <<>> THEN src
                        ELSE IF tgt # <<>> THEN tgt
                        ELSE <<<<"d", "b", "o">>, <<"w", "e", "b">>, <<"r", "b", "a", "c">>, <<"n", "o", "t", "i", "f", "i", "c", "a", "t", "i", "o", "n">>>>
        IN  /\ cfgOut.fetch["source"][1].schemas = expected
            /\ cfgOut.fetch["target"][1].schemas = expected

\* C26: a malformed connection-string override ends the run with a
\* configuration error before a fetch starts; the run never goes on with
\* connection settings put in its place.
C26_MalformedOverrideFails ==
    \A s \in Sides :
        (cfgIn.connection[s] # <<>> /\ cfgIn.connection[s][1] \in MalformedOverrides) =>
            /\ cfgPc \notin {"fetch", "fetching"}
            /\ cfgOut.cfg[s] = <<>>

\* ---------------------------------------------------------------------------
\* column_definition on one column row
\* ---------------------------------------------------------------------------

ColumnTypes ==
    {<<"v", "a", "r", "c", "h", "a", "r">>, <<"c", "h", "a", "r">>, <<"N", "V", "a", "r", "C", "h", "a", "r">>, <<"n", "c", "h", "a", "r">>, <<"v", "a", "r", "b", "i", "n", "a", "r", "y">>, <<"b", "i", "n", "a", "r", "y">>,
     <<"d", "e", "c", "i", "m", "a", "l">>, <<"N", "u", "m", "e", "r", "i", "c">>, <<"d", "a", "t", "e", "t", "i", "m", "e", "2">>, <<"t", "i", "m", "e">>, <<"d", "a", "t", "e", "t", "i", "m", "e", "o", "f", "f", "s", "e", "t">>,
     <<"i", "n", "t">>, <<"x", "m", "l">>}

ColumnLengths == {-1, 0, 8, 200}

InitColumn ==
    /\ \E type \in ColumnTypes, len \in ColumnLengths, prec \in {0, 18},
          scale \in {0, 7}, nullable \in BOOLEAN, identity \in BOOLEAN,
          default \in {<<>>, <<"(", "(", "0", ")", ")">>}, computed \in {<<>>, <<"(", "[", "a", "]", "+", "(", "1", ")", ")">>} :
           cfgIn = TableColumnRow(<<"d", "b", "o">>, <<"T">>, 1, <<"C", "o", "l">>, type, len, prec, scale,
                                  nullable, identity, default, computed)
    /\ cfgOut = <<>>
    /\ cfgPc = "column_definition"
    /\ FunIdle
    /\ DiffIdle
    /\ SummaryIdle
    /\ RunIdle
    /\ RenderIdle

ColumnDefinitionCall ==
    /\ cfgPc = "column_definition"
    /\ cfgOut' = ColumnDefinition(cfgIn)
    /\ cfgPc' = "defined"
    /\ UNCHANGED <<cfgIn, fIn, fType, fFlags, fOnce, fTwice, fPc>>
    /\ UNCHANGED <<diffVars, summaryVars, runVars, renderVars>>

NextColumn == ColumnDefinitionCall

SpecColumn == InitColumn /\ [][NextColumn]_vars

\* The type spec the reconstruction rule gives for the column.
ExpectedTypeSpec ==
    LET t == ToLowercase(cfgIn.data_type)
        len == cfgIn.max_length
    IN  IF t \in {<<"v", "a", "r", "c", "h", "a", "r">>, <<"c", "h", "a", "r">>, <<"v", "a", "r", "b", "i", "n", "a", "r", "y">>, <<"b", "i", "n", "a", "r", "y">>}
        THEN t \o <<"(">> \o (IF len = -1 THEN <<"m", "a", "x">> ELSE IntToStr(len)) \o <<")">>
        ELSE IF t \in {<<"n", "v", "a", "r", "c", "h", "a", "r">>, <<"n", "c", "h", "a", "r">>}
        THEN t \o <<"(">> \o (IF len = -1 THEN <<"m", "a", "x">> ELSE IntToStr(len \div 2)) \o <<")">>
        ELSE IF t \in {<<"d", "e", "c", "i", "m", "a", "l">>, <<"n", "u", "m", "e", "r", "i", "c">>}
        THEN t \o <<"(">> \o IntToStr(cfgIn.precision) \o <<",">> \o IntToStr(cfgIn.scale) \o <<")">>
        ELSE IF t \in {<<"d", "a", "t", "e", "t", "i", "m", "e", "2">>, <<"t", "i", "m", "e">>, <<"d", "a", "t", "e", "t", "i", "m", "e", "o", "f", "f", "s", "e", "t">>}
        THEN t \o <<"(">> \o IntToStr(cfgIn.scale) \o <<")">>
        ELSE t

\* C24: column_definition gives [name] AS expr for a computed column and
\* otherwise the quoted name, the type spec, IDENTITY iff identity, NULL or
\* NOT NULL, and DEFAULT expr iff there is a default, in this order, joined
\* by single spaces; the type spec follows the rule by type family.
C24_ColumnDefinition ==
    cfgPc = "defined" =>
        cfgOut =
            IF cfgIn.computed_definition # <<>>
            THEN <<"[">> \o cfgIn.column_name \o <<"]", " ", "A", "S", " ">> \o cfgIn.computed_definition
            ELSE <<"[">> \o cfgIn.column_name \o <<"]", " ">> \o ExpectedTypeSpec
                 \o (IF cfgIn.is_identity THEN <<" ", "I", "D", "E", "N", "T", "I", "T", "Y">> ELSE <<>>)
                 \o (IF cfgIn.is_nullable THEN <<" ", "N", "U", "L", "L">> ELSE <<" ", "N", "O", "T", " ", "N", "U", "L", "L">>)
                 \o (IF cfgIn.default_definition # <<>>
                     THEN <<" ", "D", "E", "F", "A", "U", "L", "T", " ">> \o cfgIn.default_definition ELSE <<>>)

\* An identity nvarchar column with a default: all five parts, the length
\* halved.
C24_Witness ==
    /\ cfgPc = "defined"
    /\ cfgOut = <<"[", "C", "o", "l", "]", " ", "n", "v", "a", "r", "c", "h", "a", "r", "(", "1", "0", "0", ")", " ", "I", "D", "E", "N", "T", "I", "T", "Y", " ", "N", "O", "T", " ", "N", "U", "L", "L", " ", "D", "E", "F", "A", "U", "L", "T", " ", "(", "(", "0", ")", ")">>

\* ---------------------------------------------------------------------------
\* The TODO block of a changed table
\* ---------------------------------------------------------------------------

\* The row a snapshot's table map keeps for a key: the last one with the key.
LastTableRow(snapshot, key) ==
    LET at == {i \in 1..Len(snapshot.tables) : TableKey(snapshot.tables[i]) = key}
    IN  snapshot.tables[CHOOSE i \in at : \A j \in at : j <= i]

\* The TODO blocks of the last rendering written for a table key.
TodoBlocks(key) ==
    {aTableLines[i] : i \in {j \in 1..Len(aTableLines) :
        StartsWith(aTableLines[j],
                   <<"-", "-", " ", "T", "O", "D", "O", ":", " ", "T", "a", "b", "l", "e", " ", "d", "r", "i", "f", "t", " ", "d", "e", "t", "e", "c", "t", "e", "d", " ", "f", "o", "r", " ">> \o key \o <<"LF">>)}}

\* C27: for each key of tables.changed of the summary of the two snapshots
\* there is one TODO block; it holds the 'Columns differ' line iff the columns
\* of the source's and the target's row differ, the 'indexes differ' line iff
\* their indexes differ and the 'CHECK constraints differ' line iff their
\* checks differ, and at least one of the three; the row of a key is the last
\* one the snapshot holds for it.
C27_TodoBlockLines ==
    (aPc = "rendered" /\ aOrigin # "foreign") =>
        \A key \in Elements(aSummary.tables.changed) :
            LET s == LastTableRow(aSource, key)
                t == LastTableRow(aTarget, key)
            IN  /\ Cardinality(TodoBlocks(key)) = 1
                /\ \A b \in TodoBlocks(key) :
                    /\ Contains(b, <<"-", "-", " ", " ", " ", "C", "o", "l", "u", "m", "n", "s", " ", "d", "i", "f", "f", "e", "r">>) <=> s.columns # t.columns
                    /\ Contains(b, <<"i", "n", "d", "e", "x", "e", "s", " ", "d", "i", "f", "f", "e", "r", ".">>) <=> s.indexes # t.indexes
                    /\ Contains(b, <<"-", "-", " ", " ", " ", "C", "H", "E", "C", "K", " ", "c", "o", "n", "s", "t", "r", "a", "i", "n", "t", "s", " ", "d", "i", "f", "f", "e", "r", ".">>) <=> s.checks # t.checks
                    /\ \/ Contains(b, <<"-", "-", " ", " ", " ", "C", "o", "l", "u", "m", "n", "s", " ", "d", "i", "f", "f", "e", "r">>)
                       \/ Contains(b, <<"i", "n", "d", "e", "x", "e", "s", " ", "d", "i", "f", "f", "e", "r", ".">>)
                       \/ Contains(b, <<"-", "-", " ", " ", " ", "C", "H", "E", "C", "K", " ", "c", "o", "n", "s", "t", "r", "a", "i", "n", "t", "s", " ", "d", "i", "f", "f", "e", "r", ".">>)

\* A changed table whose source holds two rows of the key: the last row
\* differs from the target's only by its indexes, the first one by its
\* columns and checks.
C27_Witness ==
    /\ aPc = "rendered"
    /\ aOrigin = "summarize"
    /\ Len(aSource.tables) = 2
    /\ TableKey(aSource.tables[1]) = TableKey(aSource.tables[2])
    /\ aSummary.tables.changed = <<<<"d", "b", "o", ".", "U", "s", "e", "r", "s">>>>
    /\ \E b \in TodoBlocks(<<"d", "b", "o", ".", "U", "s", "e", "r", "s">>) :
        /\ Contains(b, <<"i", "n", "d", "e", "x", "e", "s", " ", "d", "i", "f", "f", "e", "r", ".">>)
        /\ ~Contains(b, <<"-", "-", " ", " ", " ", "C", "o", "l", "u", "m", "n", "s", " ", "d", "i", "f", "f", "e", "r">>)
        /\ ~Contains(b, <<"-", "-", " ", " ", " ", "C", "H", "E", "C", "K", " ", "c", "o", "n", "s", "t", "r", "a", "i", "n", "t", "s", " ", "d", "i", "f", "f", "e", "r", ".">>)

\* C28: the script rendered for the summary of the two snapshots is the
\* placeholder line only when has_drift(summary) is false: a summary with a
\* non-empty list in some category never renders to the placeholder, for
\* either value of include_drops.
C28_PlaceholderOnlyWithoutDrift ==
    (aPc = "rendered" /\ aOrigin = "summarize" /\ HasDrift(aSummary)) =>
        aScript # Placeholder

\* ---------------------------------------------------------------------------
\* The two fetches under every interleaving
\* ---------------------------------------------------------------------------

\* What one fetch holds at its position when only its own steps have touched
\* it: the statements it has sent so far, and its Snapshot once it is done.
OwnProgress(s) ==
    /\ tpc[s] = "connect" => (qi[s] = 1 /\ sent[s] = <<>>)
    /\ tpc[s] = "send" => sent[s] = SubSeq(QueryOrder, 1, qi[s] - 1)
    /\ tpc[s] = "recv" => sent[s] = SubSeq(QueryOrder, 1, qi[s])
    /\ tpc[s] \in {"connect", "send", "recv"} => result[s] = EmptySnapshot
    /\ (tpc[s] = "done" /\ (pc = "fetch" \/ BothFetched)) =>
        /\ sent[s] = QueryOrder
        /\ result[s].name = ProfileName(s)
        /\ result[s] \in Catalogs(ProfileName(s))

\* C30: under every interleaving of the steps of the two fetches and either
\* completion order, each fetch holds what its own steps gave it and nothing
\* of the other; when both succeeded the left snapshot is the source
\* profile's and the right one the target profile's, and the summary is the
\* one summarize gives for these two snapshots in this order, which is what
\* two fetches run one after the other yield.
C30_SchedulingIndependent ==
    /\ \A s \in Sides : OwnProgress(s)
    /\ diffed =>
        /\ BothFetched
        /\ result["source"].name = ProfileName("source")
        /\ result["target"].name = ProfileName("target")
        /\ rSummary = Summarize(result["source"], result["target"],
                                cmd.ignore_whitespace, cmd.strip_comments,
                                0, MaxSeed)

\* The target finished all five queries while the source was still waiting
\* for the answer to its second one.
C30_Witness ==
    /\ pc = "fetch"
    /\ tpc["target"] = "done"
    /\ tpc["source"] = "recv"
    /\ qi["source"] = 2
    /\ result["target"].name = ProfileName("target")
    /\ result["source"] = EmptySnapshot

====
